---- MODULE Spec2Model ----
(***************************************************************************)
(* Scene State Engine of opencommotion (services/scene_v2/engine.py,       *)
(* services/scene_v2/recipes.py): the scene document, the canonical id     *)
(* allocator, the op normalizer, the uniform rate limiter and apply_ops.   *)
(* Python dicts are functions with a dynamic domain, strings are strings,  *)
(* float uniform values are integers in thousandths.                       *)
(***************************************************************************)
EXTENDS Integers, Sequences, FiniteSets, TLC

(***************************************************************************)
(* dict helpers                                                            *)
(***************************************************************************)
EmptyDict == [k \in {} |-> 0]

Get(d, k, default) == IF k \in DOMAIN d THEN d[k] ELSE default

Put(d, k, v) == [x \in (DOMAIN d) \cup {k} |-> IF x = k THEN v ELSE d[x]]

Pop(d, k) == [x \in (DOMAIN d) \ {k} |-> d[x]]

\* {**a, **b}
Merge(a, b) == [x \in (DOMAIN a) \cup (DOMAIN b) |-> IF x \in DOMAIN b THEN b[x] ELSE a[x]]

(***************************************************************************)
(* string helpers: str.strip, str.lower, str.startswith, str comparison,   *)
(* f"{idx:03d}"                                                            *)
(***************************************************************************)
Char(s, i) == SubSeq(s, i, i)

\* the characters ids are written with, in code point order (Python compares
\* str by code point)
Ascii == " #-.0123456789:ABCDEFGHIJKLMNOPQRSTUVWXYZ_abcdefghijklmnopqrstuvwxyz"

OrdOf == [c \in {Char(Ascii, i) : i \in 1..Len(Ascii)} |-> CHOOSE i \in 1..Len(Ascii) : Char(Ascii, i) = c]

Ord(c) == OrdOf[c]

RECURSIVE StrLessFrom(_, _, _)
StrLessFrom(a, b, i) ==
    IF i > Len(a) THEN i <= Len(b)
    ELSE IF i > Len(b) THEN FALSE
    ELSE IF Char(a, i) = Char(b, i) THEN StrLessFrom(a, b, i + 1)
    ELSE Ord(Char(a, i)) < Ord(Char(b, i))

StrLess(a, b) == StrLessFrom(a, b, 1)

StartsWith(s, p) == Len(s) >= Len(p) /\ SubSeq(s, 1, Len(p)) = p

RECURSIVE LStrip(_)
LStrip(s) == IF Len(s) > 0 /\ Char(s, 1) = " " THEN LStrip(SubSeq(s, 2, Len(s))) ELSE s

RECURSIVE RStrip(_)
RStrip(s) == IF Len(s) > 0 /\ Char(s, Len(s)) = " " THEN RStrip(SubSeq(s, 1, Len(s) - 1)) ELSE s

Strip(s) == RStrip(LStrip(s))

Upper == "ABCDEFGHIJKLMNOPQRSTUVWXYZ"
LowerAlpha == "abcdefghijklmnopqrstuvwxyz"
Digits == "0123456789"

CharsOf(s) == {Char(s, i) : i \in 1..Len(s)}

UpperChars == CharsOf(Upper)

LowerOf == [c \in UpperChars |-> Char(LowerAlpha, CHOOSE i \in 1..26 : Char(Upper, i) = c)]

LowerChar(c) == IF c \in UpperChars THEN LowerOf[c] ELSE c

RECURSIVE Lower(_)
Lower(s) == IF Len(s) = 0 THEN "" ELSE LowerChar(Char(s, 1)) \o Lower(SubSeq(s, 2, Len(s)))

\* f"{n:03d}" and f"{n:05d}"
ZeroPad(n, width) ==
    LET body == ToString(n)
        RECURSIVE Fill(_)
        Fill(s) == IF Len(s) >= width THEN s ELSE Fill("0" \o s)
    IN Fill(body)

(***************************************************************************)
(* engine.py constants                                                     *)
(***************************************************************************)
ENTITY_NS == "entity"
MATERIAL_NS == "material"
BEHAVIOR_NS == "behavior"

THREE_D_KINDS == {"mesh", "camera", "light", "environment"}
BUILTIN_MATERIAL_TYPES == {"pbr", "unlit"}

\* bounded histories: trigger_log and warnings keep the last 200 entries
HistoryCap == 200

new_scene_state ==
    [ revision |-> 0,
      entities |-> EmptyDict,
      materials |-> EmptyDict,
      behaviors |-> EmptyDict,
      bindings |-> EmptyDict,
      applied_op_ids |-> {},
      id_aliases |-> EmptyDict,
      counters |-> [ns \in {ENTITY_NS, MATERIAL_NS, BEHAVIOR_NS} |-> 1],
      uniform_update_at |-> EmptyDict,
      trigger_log |-> << >>,
      warnings |-> << >> ]

(***************************************************************************)
(* Canonical ID allocator                                                  *)
(***************************************************************************)
\* [a-zA-Z0-9_-]
SlugChars == CharsOf(LowerAlpha) \cup CharsOf(Upper) \cup CharsOf(Digits) \cup {"_", "-"}

SlugChar(c) == c \in SlugChars

\* re.sub(r"[^a-zA-Z0-9_-]+", "-", s): every run of other characters becomes one "-"
RECURSIVE SubRuns(_, _)
SubRuns(s, inRun) ==
    IF Len(s) = 0 THEN ""
    ELSE IF SlugChar(Char(s, 1)) THEN Char(s, 1) \o SubRuns(SubSeq(s, 2, Len(s)), FALSE)
    ELSE IF inRun THEN SubRuns(SubSeq(s, 2, Len(s)), TRUE)
    ELSE "-" \o SubRuns(SubSeq(s, 2, Len(s)), TRUE)

RECURSIVE StripDash(_)
StripDash(s) ==
    IF Len(s) > 0 /\ Char(s, 1) = "-" THEN StripDash(SubSeq(s, 2, Len(s)))
    ELSE IF Len(s) > 0 /\ Char(s, Len(s)) = "-" THEN StripDash(SubSeq(s, 1, Len(s) - 1))
    ELSE s

slug(value) ==
    LET cleaned == StripDash(SubRuns(Lower(Strip(value)), FALSE))
    IN IF cleaned = "" THEN "item" ELSE cleaned

prefix(namespace) ==
    IF namespace = ENTITY_NS THEN "entity"
    ELSE IF namespace = MATERIAL_NS THEN "mat"
    ELSE IF namespace = BEHAVIOR_NS THEN "beh"
    ELSE namespace

\* returns the scene with the bumped counter and the minted id
mint(scene, namespace, seed) ==
    LET idx == Get(scene.counters, namespace, 1)
    IN [ scene |-> [scene EXCEPT !.counters = Put(scene.counters, namespace, idx + 1)],
         id |-> prefix(namespace) \o ":" \o slug(seed) \o "#" \o ZeroPad(idx, 3) ]

AliasKey(namespace, token) == namespace \o ":" \o token

\* mutant: the minted id is not recorded in id_aliases
skip_alias(m, alias_key) == m

\* aliases[alias_key] = canonical
record_alias(m, alias_key) ==
    [ scene |-> [m.scene EXCEPT !.id_aliases = Put(m.scene.id_aliases, alias_key, m.id)], id |-> m.id ]

\* canonical_id from the stripped token on
canonical_token(scene, namespace, token) ==
    IF StartsWith(token, prefix(namespace) \o ":") THEN [scene |-> scene, id |-> token]
    ELSE IF token # "" THEN
         IF Get(scene.id_aliases, AliasKey(namespace, token), "") # ""
         THEN [scene |-> scene, id |-> scene.id_aliases[AliasKey(namespace, token)]]
         ELSE record_alias(mint(scene, namespace, token), AliasKey(namespace, token))
    ELSE mint(scene, namespace, namespace)

\* returns the scene (counters and aliases may have moved) and the canonical id
canonical_id(scene, namespace, raw_id) == canonical_token(scene, namespace, Strip(raw_id))

(***************************************************************************)
(* Op normalizer                                                           *)
(***************************************************************************)
\* mutant: the synthetic op_id also names the kind of op
OpIdAt_by_name(op, idx) == Get(op, "op_id", Get(op, "op", "op") \o "-" \o ZeroPad(idx, 5))

\* the op_id of the op at 0-based position idx: its own, else f"op-{idx:05d}"
OpIdAt(op, idx) == Get(op, "op_id", "op-" \o ZeroPad(idx, 5))

\* mutant: a negative at_ms is kept
NormalizedRow_unclamped(ops, i) ==
    LET op == ops[i]
        at_ms == Get(op, "at_ms", 0)
        op_id == OpIdAt(op, i - 1)
    IN [ at_ms |-> at_ms, op_id |-> op_id, idx |-> i - 1,
         op |-> Put(Put(op, "at_ms", at_ms), "op_id", op_id) ]

NormalizedRow(ops, i) ==
    LET op == ops[i]
        at_ms == Get(op, "at_ms", 0)
        clamped == IF at_ms < 0 THEN 0 ELSE at_ms
        op_id == OpIdAt(op, i - 1)
    IN [ at_ms |-> clamped, op_id |-> op_id, idx |-> i - 1,
         op |-> Put(Put(op, "at_ms", clamped), "op_id", op_id) ]

\* mutant: rows of one at_ms are left in the order of submission
RowLess_by_time(r1, r2) ==
    \/ r1.at_ms < r2.at_ms
    \/ r1.at_ms = r2.at_ms /\ r1.idx < r2.idx

\* the sort key (row[0], row[1], row[2])
RowLess(r1, r2) ==
    \/ r1.at_ms < r2.at_ms
    \/ r1.at_ms = r2.at_ms /\ StrLess(r1.op_id, r2.op_id)
    \/ r1.at_ms = r2.at_ms /\ r1.op_id = r2.op_id /\ r1.idx < r2.idx

\* mutant: the rows are left in the order of submission
normalize_ops_unsorted(ops) == [i \in 1..Len(ops) |-> NormalizedRow(ops, i).op]

normalize_ops(ops) ==
    LET n == Len(ops)
        rows == [i \in 1..n |-> NormalizedRow(ops, i)]
        rank(i) == Cardinality({j \in 1..n : RowLess(rows[j], rows[i])})
    IN [k \in 1..n |-> rows[CHOOSE i \in 1..n : rank(i) = k - 1].op]

(***************************************************************************)
(* Rebuild heuristic and caps                                              *)
(***************************************************************************)
CountOps(ops, name) == Cardinality({i \in 1..Len(ops) : Get(ops[i], "op", "") = name})

\* mutant: the threshold does not grow with the scene
looks_like_rebuild_flat(scene, ops) ==
    LET existing == Cardinality(DOMAIN scene.entities)
        creates == CountOps(ops, "createEntity")
        destroys == CountOps(ops, "destroyEntity")
        churn == creates + destroys
    IN IF existing <= 0 THEN FALSE
       ELSE destroys >= 3 /\ creates >= 3 /\ churn > 8

looks_like_rebuild(scene, ops) ==
    LET existing == Cardinality(DOMAIN scene.entities)
        creates == CountOps(ops, "createEntity")
        destroys == CountOps(ops, "destroyEntity")
        churn == creates + destroys
        \* int(existing * 0.4)
        limit == IF (existing * 4) \div 10 > 8 THEN (existing * 4) \div 10 ELSE 8
    IN IF existing <= 0 THEN FALSE
       ELSE destroys >= 3 /\ creates >= 3 /\ churn > limit

IsThreeD(row) == Lower(Strip(Get(row, "kind", ""))) \in THREE_D_KINDS

\* (two_d, three_d)
entity_counts(scene) ==
    LET three == {e \in DOMAIN scene.entities : IsThreeD(scene.entities[e])}
    IN [ two_d |-> Cardinality((DOMAIN scene.entities) \ three), three_d |-> Cardinality(three) ]

\* mutant: the 3D entity count is not checked
enforce_caps_without_3d(scene, policy) ==
    LET counts == entity_counts(scene)
    IN IF counts.two_d > policy.max_entities_2d THEN "patch_budget_exceeded"
       ELSE IF Cardinality(DOMAIN scene.materials) > policy.max_materials THEN "patch_budget_exceeded"
       ELSE IF Cardinality(DOMAIN scene.behaviors) > policy.max_behaviors THEN "patch_budget_exceeded"
       ELSE ""

\* "" when every count is within its cap, else the error code
enforce_caps(scene, policy) ==
    LET counts == entity_counts(scene)
    IN IF counts.two_d > policy.max_entities_2d THEN "patch_budget_exceeded"
       ELSE IF counts.three_d > policy.max_entities_3d THEN "patch_budget_exceeded"
       ELSE IF Cardinality(DOMAIN scene.materials) > policy.max_materials THEN "patch_budget_exceeded"
       ELSE IF Cardinality(DOMAIN scene.behaviors) > policy.max_behaviors THEN "patch_budget_exceeded"
       ELSE ""

(***************************************************************************)
(* Shader recipe registry (recipes.py); values in thousandths              *)
(***************************************************************************)
UniformRule(default, min_value, max_value, max_update_hz) ==
    [ default |-> default, min_value |-> min_value, max_value |-> max_value,
      max_update_hz |-> max_update_hz ]

RECIPES ==
    [ glass_refraction_like |->
        [ ior |-> UniformRule(1180, 1000, 1600, 30),
          distortion |-> UniformRule(120, 0, 350, 30),
          rim_strength |-> UniformRule(450, 0, 1000, 30) ],
      water_volume_tint |->
        [ density |-> UniformRule(360, 0, 1000, 30),
          blue_shift |-> UniformRule(420, 0, 1000, 30) ],
      caustic_overlay_shader |->
        [ intensity |-> UniformRule(500, 0, 1000, 30),
          scale |-> UniformRule(1600, 100, 4000, 15),
          speed |-> UniformRule(800, 50, 3000, 15) ] ]

\* get_recipe(recipe_id) is not None
HasRecipe(recipe_id) == recipe_id \in DOMAIN RECIPES

\* a raw uniform value: float(value) succeeds iff numeric
Num(milli) == [numeric |-> TRUE, milli |-> milli]
NotNum == [numeric |-> FALSE, milli |-> 0]

\* mutant: the declared range is not looked at
validate_uniform_unranged(recipe_id, uniform, value) ==
    IF ~HasRecipe(recipe_id) THEN [ok |-> FALSE, reason |-> "unknown_recipe_id", numeric |-> 0]
    ELSE IF uniform \notin DOMAIN RECIPES[recipe_id]
         THEN [ok |-> FALSE, reason |-> "unknown_uniform", numeric |-> 0]
    ELSE IF ~value.numeric THEN [ok |-> FALSE, reason |-> "uniform_not_numeric", numeric |-> 0]
    ELSE [ok |-> TRUE, reason |-> "", numeric |-> value.milli]

\* (ok, reason, numeric)
validate_uniform(recipe_id, uniform, value) ==
    IF ~HasRecipe(recipe_id) THEN [ok |-> FALSE, reason |-> "unknown_recipe_id", numeric |-> 0]
    ELSE IF uniform \notin DOMAIN RECIPES[recipe_id]
         THEN [ok |-> FALSE, reason |-> "unknown_uniform", numeric |-> 0]
    ELSE IF ~value.numeric THEN [ok |-> FALSE, reason |-> "uniform_not_numeric", numeric |-> 0]
    ELSE IF value.milli < RECIPES[recipe_id][uniform].min_value
              \/ value.milli > RECIPES[recipe_id][uniform].max_value
         THEN [ok |-> FALSE, reason |-> "uniform_out_of_range", numeric |-> 0]
    ELSE [ok |-> TRUE, reason |-> "", numeric |-> value.milli]

(***************************************************************************)
(* Uniform rate limiter                                                    *)
(***************************************************************************)
\* an op outcome: the scene as the op left it and the error code ("" = returned)
Ok(scene) == [scene |-> scene, err |-> ""]
Raise(scene, code) == [scene |-> scene, err |-> code]

\* round(num / den) as Python rounds: to nearest, ties to even
RoundHalfEven(num, den) ==
    LET q == num \div den
        r == num % den
    IN IF 2 * r < den THEN q
       ELSE IF 2 * r > den THEN q + 1
       ELSE IF q % 2 = 0 THEN q ELSE q + 1

\* mutant: the recipe's declared rate is not looked at
EffectiveHz_policy_only(material, uniform_name, policy) == policy.max_uniform_update_hz

\* the rate in force for (material, uniform): lines 257-263
EffectiveHz(material, uniform_name, policy) ==
    LET recipe_id == Strip(Get(material, "recipe_id", ""))
        in_schema == recipe_id # "" /\ HasRecipe(recipe_id) /\ uniform_name \in DOMAIN RECIPES[recipe_id]
        recipe_hz == RECIPES[recipe_id][uniform_name].max_update_hz
        max_hz == IF in_schema /\ recipe_hz < policy.max_uniform_update_hz
                  THEN recipe_hz ELSE policy.max_uniform_update_hz
    IN IF max_hz <= 0 THEN policy.max_uniform_update_hz ELSE max_hz

MinDeltaMs(max_hz) == RoundHalfEven(1000, max_hz)

\* mutant: an update accepted at 0 ms is taken for "none yet"
rate_limited_from_one(previous_ms, at_ms, min_delta_ms) ==
    previous_ms > 0 /\ (at_ms - previous_ms) < min_delta_ms

\* previous_ms is -1 when no update of the key was accepted yet
rate_limited(previous_ms, at_ms, min_delta_ms) ==
    previous_ms >= 0 /\ (at_ms - previous_ms) < min_delta_ms

UniformKey(material_id, uniform_name) == material_id \o ":" \o uniform_name

\* mutant: the value is written, the time of the update is not kept
write_uniform_unstamped(scene, material_id, uniform_name, at_ms, value) ==
    Ok([scene EXCEPT
          !.materials = Put(scene.materials, material_id,
                            Merge(scene.materials[material_id],
                                  [ uniforms |-> Put(Get(scene.materials[material_id], "uniforms", EmptyDict),
                                                     uniform_name, value),
                                    updated_at_ms |-> at_ms ]))])

\* lines 292-296: the value is written and the timestamp table updated
write_uniform(scene, material_id, uniform_name, at_ms, value) ==
    Ok([scene EXCEPT
          !.materials = Put(scene.materials, material_id,
                            Merge(scene.materials[material_id],
                                  [ uniforms |-> Put(Get(scene.materials[material_id], "uniforms", EmptyDict),
                                                     uniform_name, value),
                                    updated_at_ms |-> at_ms ])),
          !.uniform_update_at = Put(scene.uniform_update_at, UniformKey(material_id, uniform_name), at_ms)])

\* checked is what validate_uniform returned
write_checked(scene, material_id, uniform_name, at_ms, checked) ==
    IF ~checked.ok THEN Raise(scene, checked.reason)
    ELSE write_uniform(scene, material_id, uniform_name, at_ms, checked.numeric)

\* lines 273-290: the value is validated against the recipe, or coerced to float
validated_write(scene, material_id, uniform_name, at_ms, recipe_id, raw_value) ==
    IF recipe_id # ""
    THEN write_checked(scene, material_id, uniform_name, at_ms,
                       validate_uniform(recipe_id, uniform_name, raw_value))
    ELSE IF ~raw_value.numeric THEN Raise(scene, "uniform_not_numeric")
    ELSE write_uniform(scene, material_id, uniform_name, at_ms, raw_value.milli)

\* lines 252-271 on: the material exists and the uniform has a name
limited_write(scene, material_id, uniform_name, op, policy) ==
    IF rate_limited(Get(scene.uniform_update_at, UniformKey(material_id, uniform_name), -1),
                    Get(op, "at_ms", 0),
                    MinDeltaMs(EffectiveHz(scene.materials[material_id], uniform_name, policy)))
    THEN Raise(scene, "uniform_rate_limited")
    ELSE validated_write(scene, material_id, uniform_name, Get(op, "at_ms", 0),
                         Strip(Get(scene.materials[material_id], "recipe_id", "")),
                         Get(op, "value", NotNum))

\* c is what canonical_id returned for the material id
uniform_update_at_id(c, uniform_name, op, policy) ==
    IF c.id \notin DOMAIN c.scene.materials THEN Raise(c.scene, "unknown_material_id")
    ELSE IF uniform_name = "" THEN Raise(c.scene, "uniform_name_required")
    ELSE limited_write(c.scene, c.id, uniform_name, op, policy)

apply_uniform_update(scene0, op, policy) ==
    uniform_update_at_id(canonical_id(scene0, MATERIAL_NS, Get(op, "material_id", "")),
                         Strip(Get(op, "uniform", "")), op, policy)

(***************************************************************************)
(* Behavior state machine                                                  *)
(***************************************************************************)
\* the state the transition leads to, "" for None
\* mutant: the last matching entry of the list wins
resolve_transition_last(scene, behavior_id, action) ==
    LET behavior == Get(scene.behaviors, behavior_id, EmptyDict)
        definition == Get(behavior, "definition", EmptyDict)
        states == Get(definition, "states", EmptyDict)
        current == IF Get(behavior, "state", "") # "" THEN behavior.state
                   ELSE IF Get(definition, "state", "") # "" THEN definition.state
                   ELSE "idle"
        transitions == Get(Get(states, current, EmptyDict), "transitions", << >>)
        hits == {i \in 1..Len(transitions) : Strip(Get(transitions[i], "event", "")) = action}
    IN IF hits = {} THEN ""
       ELSE Strip(Get(transitions[CHOOSE i \in hits : \A j \in hits : i >= j], "to", ""))

resolve_transition(scene, behavior_id, action) ==
    LET behavior == Get(scene.behaviors, behavior_id, EmptyDict)
        definition == Get(behavior, "definition", EmptyDict)
        states == Get(definition, "states", EmptyDict)
        current == IF Get(behavior, "state", "") # "" THEN behavior.state
                   ELSE IF Get(definition, "state", "") # "" THEN definition.state
                   ELSE "idle"
        transitions == Get(Get(states, current, EmptyDict), "transitions", << >>)
        hits == {i \in 1..Len(transitions) : Strip(Get(transitions[i], "event", "")) = action}
    IN IF hits = {} THEN ""
       ELSE Strip(Get(transitions[CHOOSE i \in hits : \A j \in hits : i <= j], "to", ""))

(***************************************************************************)
(* Apply engine: one op                                                    *)
(***************************************************************************)
\* In every handler below, c (ce, cm, cb, ct) is what canonical_id returned: the
\* scene with the counters and aliases as the call left them, and the id.

\* mutant: a named entity is stored under the caller's name
createEntity_at_raw_name(c, op, at_ms) ==
    LET named == Strip(Get(op, "entity_id", ""))
        entity_id == IF named # "" THEN named ELSE c.id
        kind == Lower(Strip(Get(op, "kind", "")))
        row == Merge(Merge(Get(c.scene.entities, entity_id, EmptyDict), Get(op, "data", EmptyDict)),
                     [id |-> entity_id, kind |-> kind, updated_at_ms |-> at_ms])
    IN IF kind = "" THEN Raise(c.scene, "unknown_entity_kind")
       ELSE Ok([c.scene EXCEPT !.entities = Put(c.scene.entities, entity_id, row)])

createEntity_at(c, op, at_ms) ==
    LET kind == Lower(Strip(Get(op, "kind", "")))
        row == Merge(Merge(Get(c.scene.entities, c.id, EmptyDict), Get(op, "data", EmptyDict)),
                     [id |-> c.id, kind |-> kind, updated_at_ms |-> at_ms])
    IN IF kind = "" THEN Raise(c.scene, "unknown_entity_kind")
       ELSE Ok([c.scene EXCEPT !.entities = Put(c.scene.entities, c.id, row)])

createEntity(scene0, op, at_ms) ==
    createEntity_at(canonical_id(scene0, ENTITY_NS, Get(op, "entity_id", "")), op, at_ms)

\* mutant: an update of a missing entity creates it
updateEntity_at_upsert(c, op, at_ms) ==
    Ok([c.scene EXCEPT !.entities =
          Put(c.scene.entities, c.id,
              Merge(Merge(Get(c.scene.entities, c.id, EmptyDict), Get(op, "changes", EmptyDict)),
                    [updated_at_ms |-> at_ms]))])

updateEntity_at(c, op, at_ms) ==
    IF c.id \notin DOMAIN c.scene.entities THEN Raise(c.scene, "unknown_entity_id")
    ELSE Ok([c.scene EXCEPT !.entities =
               Put(c.scene.entities, c.id,
                   Merge(Merge(c.scene.entities[c.id], Get(op, "changes", EmptyDict)),
                         [updated_at_ms |-> at_ms]))])

updateEntity(scene0, op, at_ms) ==
    updateEntity_at(canonical_id(scene0, ENTITY_NS, Get(op, "entity_id", "")), op, at_ms)

\* mutant: the behaviors on the entity go with it
destroyEntity_at_cascade(c) ==
    Ok([c.scene EXCEPT !.entities = Pop(c.scene.entities, c.id),
                       !.bindings = Pop(c.scene.bindings, c.id),
                       !.behaviors = [b \in {x \in DOMAIN c.scene.behaviors :
                                                c.scene.behaviors[x].target_id # c.id}
                                       |-> c.scene.behaviors[b]]])

destroyEntity_at(c) ==
    Ok([c.scene EXCEPT !.entities = Pop(c.scene.entities, c.id),
                       !.bindings = Pop(c.scene.bindings, c.id)])

destroyEntity(scene0, op) == destroyEntity_at(canonical_id(scene0, ENTITY_NS, Get(op, "entity_id", "")))

createMaterial_at(c, data, at_ms) ==
    LET typed == Lower(Strip(Get(data, "type", "unlit")))
        material_type == IF typed = "" THEN "unlit" ELSE typed
        recipe_id == IF Get(data, "recipe_id", "") # "" THEN Strip(data.recipe_id)
                     ELSE Strip(Get(data, "shader_id", ""))
        row == Merge(Merge(Get(c.scene.materials, c.id, EmptyDict), data),
                     [ id |-> c.id, type |-> material_type, recipe_id |-> recipe_id,
                       uniforms |-> Get(data, "uniforms", EmptyDict), updated_at_ms |-> at_ms ])
    IN IF material_type \notin BUILTIN_MATERIAL_TYPES /\ recipe_id = ""
       THEN Raise(c.scene, "unknown_recipe_id")
       ELSE IF recipe_id # "" /\ ~HasRecipe(recipe_id) THEN Raise(c.scene, "unknown_recipe_id")
       ELSE Ok([c.scene EXCEPT !.materials = Put(c.scene.materials, c.id, row)])

createMaterial(scene0, op, at_ms) ==
    createMaterial_at(canonical_id(scene0, MATERIAL_NS, Get(op, "material_id", "")),
                      Get(op, "data", EmptyDict), at_ms)

updateMaterial_at(c, changes, at_ms) ==
    IF c.id \notin DOMAIN c.scene.materials THEN Raise(c.scene, "unknown_material_id")
    ELSE IF /\ "recipe_id" \in DOMAIN changes
            /\ Strip(Get(changes, "recipe_id", "")) # ""
            /\ ~HasRecipe(Strip(Get(changes, "recipe_id", "")))
         THEN Raise(c.scene, "unknown_recipe_id")
    ELSE Ok([c.scene EXCEPT !.materials =
               Put(c.scene.materials, c.id,
                   Merge(Merge(c.scene.materials[c.id], changes), [updated_at_ms |-> at_ms]))])

updateMaterial(scene0, op, at_ms) ==
    updateMaterial_at(canonical_id(scene0, MATERIAL_NS, Get(op, "material_id", "")),
                      Get(op, "changes", EmptyDict), at_ms)

\* mutant: the bindings to the material stay
destroyMaterial_at_only(c) == Ok([c.scene EXCEPT !.materials = Pop(c.scene.materials, c.id)])

destroyMaterial_at(c) ==
    Ok([c.scene EXCEPT
          !.materials = Pop(c.scene.materials, c.id),
          !.bindings = [e \in {b \in DOMAIN c.scene.bindings : c.scene.bindings[b] # c.id} |->
                           c.scene.bindings[e]]])

destroyMaterial(scene0, op) ==
    destroyMaterial_at(canonical_id(scene0, MATERIAL_NS, Get(op, "material_id", "")))

applyMaterial_at(ce, cm) ==
    IF ce.id \notin DOMAIN cm.scene.entities THEN Raise(cm.scene, "unknown_entity_id")
    ELSE IF cm.id \notin DOMAIN cm.scene.materials THEN Raise(cm.scene, "unknown_material_id")
    ELSE Ok([cm.scene EXCEPT !.bindings = Put(cm.scene.bindings, ce.id, cm.id)])

\* the material id is resolved in the scene the entity id's resolution left
applyMaterial_entity(ce, op) ==
    applyMaterial_at(ce, canonical_id(ce.scene, MATERIAL_NS, Get(op, "material_id", "")))

applyMaterial(scene0, op) ==
    applyMaterial_entity(canonical_id(scene0, ENTITY_NS, Get(op, "entity_id", "")), op)

createBehavior_at(cb, ct, data, at_ms) ==
    IF ct.id \notin DOMAIN ct.scene.entities THEN Raise(ct.scene, "unknown_entity_id")
    ELSE Ok([ct.scene EXCEPT !.behaviors =
               Put(ct.scene.behaviors, cb.id,
                   Merge(Get(ct.scene.behaviors, cb.id, EmptyDict),
                         [ id |-> cb.id, target_id |-> ct.id, definition |-> data,
                           state |-> Get(data, "state", "idle"), updated_at_ms |-> at_ms ]))])

\* the target id is resolved in the scene the behavior id's resolution left
createBehavior_behavior(cb, op, at_ms) ==
    createBehavior_at(cb, canonical_id(cb.scene, ENTITY_NS, Get(op, "target_id", "")),
                      Get(op, "data", EmptyDict), at_ms)

createBehavior(scene0, op, at_ms) ==
    createBehavior_behavior(canonical_id(scene0, BEHAVIOR_NS, Get(op, "behavior_id", "")), op, at_ms)

updateBehavior_row(old, changes, at_ms) ==
    IF "definition" \in DOMAIN changes
    THEN Put(Merge(Merge(old, changes), [updated_at_ms |-> at_ms]), "definition",
             Merge(Get(old, "definition", EmptyDict), changes.definition))
    ELSE Merge(Merge(old, changes), [updated_at_ms |-> at_ms])

updateBehavior_at(c, changes, at_ms) ==
    IF c.id \notin DOMAIN c.scene.behaviors THEN Raise(c.scene, "unknown_behavior_id")
    ELSE Ok([c.scene EXCEPT !.behaviors =
               Put(c.scene.behaviors, c.id, updateBehavior_row(c.scene.behaviors[c.id], changes, at_ms))])

updateBehavior(scene0, op, at_ms) ==
    updateBehavior_at(canonical_id(scene0, BEHAVIOR_NS, Get(op, "behavior_id", "")),
                      Get(op, "changes", EmptyDict), at_ms)

destroyBehavior_at(c) == Ok([c.scene EXCEPT !.behaviors = Pop(c.scene.behaviors, c.id)])

destroyBehavior(scene0, op) ==
    destroyBehavior_at(canonical_id(scene0, BEHAVIOR_NS, Get(op, "behavior_id", "")))

\* mutant: past n entries the newest are dropped
LastN_oldest(seq, n) == IF Len(seq) > n THEN SubSeq(seq, 1, n) ELSE seq

\* trigger_log.append(...); del trigger_log[:-200]
LastN(seq, n) == IF Len(seq) > n THEN SubSeq(seq, Len(seq) - n + 1, Len(seq)) ELSE seq

trigger_logged(scene, target_id, action, at_ms) ==
    [scene EXCEPT !.trigger_log =
        LastN(Append(scene.trigger_log, [target_id |-> target_id, action |-> action, at_ms |-> at_ms]),
              HistoryCap)]

\* behaviors[id]["last_trigger"] = action
trigger_stamped(scene, behavior_id, action) ==
    [scene EXCEPT !.behaviors =
        Put(scene.behaviors, behavior_id, Put(scene.behaviors[behavior_id], "last_trigger", action))]

\* if nxt: behaviors[id]["state"] = nxt
trigger_moved(stamped, behavior_id, nxt) ==
    IF nxt # ""
    THEN [stamped EXCEPT !.behaviors =
            Put(stamped.behaviors, behavior_id, Put(stamped.behaviors[behavior_id], "state", nxt))]
    ELSE stamped

trigger_fired(stamped, behavior_id, action) ==
    trigger_moved(stamped, behavior_id, resolve_transition(stamped, behavior_id, action))

\* the target is no behavior: it is resolved as an entity
trigger_entity(ce, target_id, action, at_ms) ==
    IF ce.id \in DOMAIN ce.scene.entities
    THEN Ok(trigger_logged([ce.scene EXCEPT !.entities =
                               Put(ce.scene.entities, ce.id,
                                   Put(ce.scene.entities[ce.id], "last_trigger", action))],
                           target_id, action, at_ms))
    ELSE Raise(ce.scene, "unknown_trigger_target")

\* mutant: a target that names a behavior and an entity acts on both
trigger_behavior_and_entity(cb, target_id, action, at_ms) ==
    IF cb.id \in DOMAIN cb.scene.behaviors
    THEN LET hit == trigger_fired(trigger_stamped(cb.scene, cb.id, action), cb.id, action)
             ce == canonical_id(hit, ENTITY_NS, target_id)
         IN IF ce.id \in DOMAIN ce.scene.entities
            THEN trigger_entity(ce, target_id, action, at_ms)
            ELSE Ok(trigger_logged(hit, target_id, action, at_ms))
    ELSE trigger_entity(canonical_id(cb.scene, ENTITY_NS, target_id), target_id, action, at_ms)

trigger_behavior(cb, target_id, action, at_ms) ==
    IF cb.id \in DOMAIN cb.scene.behaviors
    THEN Ok(trigger_logged(trigger_fired(trigger_stamped(cb.scene, cb.id, action), cb.id, action),
                           target_id, action, at_ms))
    ELSE trigger_entity(canonical_id(cb.scene, ENTITY_NS, target_id), target_id, action, at_ms)

trigger_named(scene0, target_id, action, at_ms) ==
    IF target_id = "" \/ action = "" THEN Raise(scene0, "invalid_trigger")
    ELSE trigger_behavior(canonical_id(scene0, BEHAVIOR_NS, target_id), target_id, action, at_ms)

trigger(scene0, op, at_ms) ==
    trigger_named(scene0, Strip(Get(op, "target_id", "")), Strip(Get(op, "action", "")), at_ms)

apply_single_op(scene, op, policy) ==
    LET op_name == Get(op, "op", "")
        at_ms == Get(op, "at_ms", 0)
    IN CASE op_name = "createEntity" -> createEntity(scene, op, at_ms)
         [] op_name = "updateEntity" -> updateEntity(scene, op, at_ms)
         [] op_name = "destroyEntity" -> destroyEntity(scene, op)
         [] op_name = "createMaterial" -> createMaterial(scene, op, at_ms)
         [] op_name = "updateMaterial" -> updateMaterial(scene, op, at_ms)
         [] op_name = "destroyMaterial" -> destroyMaterial(scene, op)
         [] op_name = "applyMaterial" -> applyMaterial(scene, op)
         [] op_name = "setUniform" -> apply_uniform_update(scene, op, policy)
         [] op_name = "createBehavior" -> createBehavior(scene, op, at_ms)
         [] op_name = "updateBehavior" -> updateBehavior(scene, op, at_ms)
         [] op_name = "destroyBehavior" -> destroyBehavior(scene, op)
         [] op_name = "trigger" -> trigger(scene, op, at_ms)
         [] OTHER -> Raise(scene, "unsupported_op")

(***************************************************************************)
(* Apply engine: one batch                                                 *)
(***************************************************************************)
DuplicateWarning(op_id) == "op_duplicate_ignored:" \o op_id

\* mutant: the op ids of earlier calls are forgotten
initial_seen_empty(scene) == {}

\* seen = set(scene["applied_op_ids"])
initial_seen(scene) == scene.applied_op_ids

\* the for loop of apply_ops from position i on.  seen, applied and warnings
\* are the locals so far; raised_at is the op whose dispatch raised.
RECURSIVE apply_loop(_, _, _, _, _, _, _)

\* r is what _apply_single_op did with op: the raise leaves the loop, else the
\* op is recorded in seen and applied
loop_dispatched(normalized, i, seen, applied, warnings, policy, op, op_id, r) ==
    IF r.err # ""
    THEN [ scene |-> r.scene, err |-> r.err, seen |-> seen, applied |-> applied,
           warnings |-> warnings, raised_at |-> op ]
    ELSE apply_loop(r.scene, normalized, i + 1, seen \cup {op_id}, Append(applied, op), warnings, policy)

\* mutant: only the op ids of earlier calls are looked up; an op id seen in
\* this batch is dispatched again
loop_op_within_batch(scene, normalized, i, seen, applied, warnings, policy, op, op_id) ==
    IF op_id = "" THEN apply_loop(scene, normalized, i + 1, seen, applied, warnings, policy)
    ELSE IF op_id \in scene.applied_op_ids
         THEN apply_loop(scene, normalized, i + 1, seen, applied,
                         Append(warnings, DuplicateWarning(op_id)), policy)
    ELSE loop_dispatched(normalized, i, seen, applied, warnings, policy, op, op_id,
                         apply_single_op(scene, op, policy))

\* one turn of the loop
loop_op(scene, normalized, i, seen, applied, warnings, policy, op, op_id) ==
    IF op_id = "" THEN apply_loop(scene, normalized, i + 1, seen, applied, warnings, policy)
    ELSE IF op_id \in seen
         THEN apply_loop(scene, normalized, i + 1, seen, applied,
                         Append(warnings, DuplicateWarning(op_id)), policy)
    ELSE loop_dispatched(normalized, i, seen, applied, warnings, policy, op, op_id,
                         apply_single_op(scene, op, policy))

apply_loop(scene, normalized, i, seen, applied, warnings, policy) ==
    IF i > Len(normalized)
    THEN [ scene |-> scene, err |-> "", seen |-> seen, applied |-> applied,
           warnings |-> warnings, raised_at |-> EmptyDict ]
    ELSE loop_op(scene, normalized, i, seen, applied, warnings, policy,
                 normalized[i], Strip(Get(normalized[i], "op_id", "")))

\* what a call leaves behind: the scene, the error code raised ("" = returned),
\* where the raise came from, and the locals applied / warnings / raised_at
Outcome(scene, err, stage, applied, warnings, raised_at) ==
    [ scene |-> scene, err |-> err, stage |-> stage, applied |-> applied,
      warnings |-> warnings, raised_at |-> raised_at ]

\* mutant: the batch is undone when an op raises
propagate_rolled_back(scene_before, looped) ==
    Outcome(scene_before, looped.err, "op", looped.applied, looped.warnings, looped.raised_at)

\* an op raised inside the loop: the exception leaves apply_ops, the scene dict
\* keeps what the loop did to it in place
propagate(scene_before, looped) ==
    Outcome(looped.scene, looped.err, "op", looped.applied, looped.warnings, looped.raised_at)

\* mutant: a batch that applied no new op leaves the revision alone
commit_batch_when_new(scene, seen, warnings) ==
    [scene EXCEPT
        !.applied_op_ids = seen,
        !.revision = IF seen = scene.applied_op_ids THEN scene.revision ELSE scene.revision + 1,
        !.warnings = IF warnings # << >>
                     THEN LastN(scene.warnings \o warnings, HistoryCap)
                     ELSE scene.warnings]

\* lines 531-537
commit_batch(scene, seen, warnings) ==
    [scene EXCEPT
        !.applied_op_ids = seen,
        !.revision = scene.revision + 1,
        !.warnings = IF warnings # << >>
                     THEN LastN(scene.warnings \o warnings, HistoryCap)
                     ELSE scene.warnings]

\* mutant: the batch is committed before the caps are checked
finish_batch_commit_first(looped, policy) ==
    LET done == commit_batch(looped.scene, looped.seen, looped.warnings)
        capped == enforce_caps(done, policy)
    IN IF capped # ""
       THEN Outcome(done, capped, "caps", looped.applied, looped.warnings, EmptyDict)
       ELSE Outcome(done, "", "done", looped.applied, looped.warnings, EmptyDict)

\* lines 529-539: caps, then commit, then the result
finish_batch(looped, policy) ==
    LET capped == enforce_caps(looped.scene, policy)
    IN IF capped # ""
       THEN Outcome(looped.scene, capped, "caps", looped.applied, looped.warnings, EmptyDict)
       ELSE Outcome(commit_batch(looped.scene, looped.seen, looped.warnings), "", "done",
                    looped.applied, looped.warnings, EmptyDict)

\* mutant: a batch the caps reject leaves the scene as it was before the call
after_loop_rolled_back(scene_before, looped, policy) ==
    IF looped.err # "" THEN propagate(scene_before, looped)
    ELSE IF enforce_caps(looped.scene, policy) # ""
    THEN Outcome(scene_before, enforce_caps(looped.scene, policy), "caps", looped.applied, looped.warnings,
                 EmptyDict)
    ELSE finish_batch(looped, policy)

\* looped is what the loop left: its raise propagates, else caps and commit
after_loop(scene_before, looped, policy) ==
    IF looped.err # "" THEN propagate(scene_before, looped) ELSE finish_batch(looped, policy)

\* lines 506-527: the rebuild check, then the loop over the normalized ops
apply_normalized(scene, normalized, policy, explicit_rebuild) ==
    IF looks_like_rebuild(scene, normalized) /\ ~explicit_rebuild
    THEN Outcome(scene, "suspicious_rebuild", "rebuild", << >>, << >>, EmptyDict)
    ELSE after_loop(scene, apply_loop(scene, normalized, 1, initial_seen(scene), << >>, << >>, policy),
                    policy)

\* mutant: a batch of exactly max_patch_ops_per_turn ops is over budget
apply_ops_budget_inclusive(scene, ops, policy, explicit_rebuild) ==
    IF Len(ops) >= policy.max_patch_ops_per_turn
    THEN Outcome(scene, "patch_budget_exceeded", "budget", << >>, << >>, EmptyDict)
    ELSE apply_normalized(scene, normalize_ops(ops), policy, explicit_rebuild)

apply_ops(scene, ops, policy, explicit_rebuild) ==
    IF Len(ops) > policy.max_patch_ops_per_turn
    THEN Outcome(scene, "patch_budget_exceeded", "budget", << >>, << >>, EmptyDict)
    ELSE apply_normalized(scene, normalize_ops(ops), policy, explicit_rebuild)

(***************************************************************************)
(* Persistence store (store.py): scene dicts are objects of a heap, _scenes *)
(* maps a key to one of them, the files are snapshots and autosave          *)
(***************************************************************************)
NewStore == [heap |-> << >>, scenes |-> EmptyDict, snapshots |-> EmptyDict, autosave |-> EmptyDict]

\* key = str(scene_id).strip() or "default"
StoreKey(scene_id) == IF Strip(scene_id) = "" THEN "default" ELSE Strip(scene_id)

\* the autosave file of the key if there is one, else an empty scene
load_scene(st, key) ==
    IF key \in DOMAIN st.autosave THEN st.autosave[key] ELSE Put(new_scene_state, "scene_id", key)

\* mutant: a new key is given the scene object of the first key
get_or_create_shared(st, scene_id) ==
    IF StoreKey(scene_id) \in DOMAIN st.scenes
    THEN [store |-> st, ref |-> st.scenes[StoreKey(scene_id)]]
    ELSE IF Len(st.heap) > 0
    THEN [store |-> [st EXCEPT !.scenes = Put(st.scenes, StoreKey(scene_id), 1)], ref |-> 1]
    ELSE [ store |-> [st EXCEPT !.heap = Append(st.heap, load_scene(st, StoreKey(scene_id))),
                                !.scenes = Put(st.scenes, StoreKey(scene_id), Len(st.heap) + 1)],
           ref |-> Len(st.heap) + 1 ]

\* (the store, the scene object)
get_or_create(st, scene_id) ==
    IF StoreKey(scene_id) \in DOMAIN st.scenes
    THEN [store |-> st, ref |-> st.scenes[StoreKey(scene_id)]]
    ELSE [ store |-> [st EXCEPT !.heap = Append(st.heap, load_scene(st, StoreKey(scene_id))),
                                !.scenes = Put(st.scenes, StoreKey(scene_id), Len(st.heap) + 1)],
           ref |-> Len(st.heap) + 1 ]

\* g is what get_or_create returned; the file is named after the id as given
scene_saved(g, scene_id) ==
    [g.store EXCEPT !.autosave = Put(g.store.autosave, scene_id, Put(g.store.heap[g.ref], "saved_at", "now"))]

save_scene(st, scene_id) == scene_saved(get_or_create(st, scene_id), scene_id)

snapshot_written(g, scene_id, snap_id) ==
    save_scene([g.store EXCEPT !.snapshots =
                   Put(g.store.snapshots, << scene_id, snap_id >>,
                       Merge(g.store.heap[g.ref], [snapshot_id |-> snap_id, saved_at |-> "now"]))],
               scene_id)

\* uuid is what uuid4() returns when it is asked
snapshot(st, scene_id, name, uuid) ==
    snapshot_written(get_or_create(st, scene_id), scene_id, IF Strip(name) = "" THEN uuid ELSE Strip(name))

\* mutant: the restored scene starts over at revision 0
restore_fresh(st, scene_id, snapshot_id) ==
    IF << scene_id, snapshot_id >> \notin DOMAIN st.snapshots
    THEN [store |-> st, err |-> "FileNotFoundError"]
    ELSE [ store |-> save_scene(
                       [st EXCEPT !.heap = Append(st.heap, Merge(st.snapshots[<< scene_id, snapshot_id >>],
                                                                 [scene_id |-> scene_id, revision |-> 0])),
                                  !.scenes = Put(st.scenes, scene_id, Len(st.heap) + 1)],
                       scene_id),
           err |-> "" ]

\* the loaded dict becomes _scenes[scene_id], under the id as given
restore(st, scene_id, snapshot_id) ==
    IF << scene_id, snapshot_id >> \notin DOMAIN st.snapshots
    THEN [store |-> st, err |-> "FileNotFoundError"]
    ELSE [ store |-> save_scene(
                       [st EXCEPT !.heap = Append(st.heap, Put(st.snapshots[<< scene_id, snapshot_id >>],
                                                               "scene_id", scene_id)),
                                  !.scenes = Put(st.scenes, scene_id, Len(st.heap) + 1)],
                       scene_id),
           err |-> "" ]

\* the scene a caller gets for the id
Served(st, scene_id) == get_or_create(st, scene_id).store.heap[get_or_create(st, scene_id).ref]

\* SceneV2Store(root) in a new process: the files are there, _scenes is empty
reopened(st) == [NewStore EXCEPT !.snapshots = st.snapshots, !.autosave = st.autosave]

(***************************************************************************)
(* Gateway: /v2/orchestrate (main.py _execute_turn_v2) and the translator   *)
(* of actor patches (translate.py)                                         *)
(***************************************************************************)
\* mutant: only a base revision behind the scene's is a conflict
revision_conflict_when_behind(base_revision, current_revision) ==
    base_revision # << >> /\ base_revision[1] < current_revision

\* req.base_revision is << >> for None, << n >> for n
revision_conflict(base_revision, current_revision) ==
    base_revision # << >> /\ base_revision[1] # current_revision

\* c is what canonical_id returned for the actor id
actor_op(c, patch, op_id) ==
    IF patch.op = "remove"
    THEN [op_id |-> op_id, at_ms |-> 0, op |-> "destroyEntity", entity_id |-> c.id]
    ELSE IF c.id \in DOMAIN c.scene.entities
    THEN [op_id |-> op_id, at_ms |-> 0, op |-> "updateEntity", entity_id |-> c.id, changes |-> patch.value]
    ELSE [ op_id |-> op_id, at_ms |-> 0, op |-> "createEntity", entity_id |-> c.id,
           kind |-> IF Lower(Strip(Get(patch.value, "type", "node"))) = "" THEN "node"
                    ELSE Lower(Strip(Get(patch.value, "type", "node"))),
           data |-> patch.value ]

\* (the scene with the aliases the translation minted, the ops) for patches
\* i.. of a turn, each on "actors/<actor_id>"
RECURSIVE patches_to_v2_ops(_, _, _, _)
actor_translated(c, patches, turn_id, i, rest) ==
    [ scene |-> rest.scene,
      ops |-> << actor_op(c, patches[i], turn_id \o "-op-" \o ZeroPad(i - 1, 5)) >> \o rest.ops ]

actor_resolved(c, patches, turn_id, i) ==
    actor_translated(c, patches, turn_id, i, patches_to_v2_ops(c.scene, patches, turn_id, i + 1))

patches_to_v2_ops(doc, patches, turn_id, i) ==
    IF i > Len(patches) THEN [scene |-> doc, ops |-> << >>]
    ELSE actor_resolved(canonical_id(doc, ENTITY_NS, patches[i].actor_id), patches, turn_id, i)

Contains(s, sub) == \E i \in 1..(Len(s) - Len(sub) + 1) : SubSeq(s, i, i + Len(sub) - 1) = sub

\* some op is more than an entity op on an annotation
has_visual_delta_ops(ops) ==
    \E i \in 1..Len(ops) :
        /\ Strip(ops[i].op) # ""
        /\ ~ /\ ops[i].op \in {"createEntity", "updateEntity", "destroyEntity"}
              /\ \/ Lower(Strip(Get(ops[i], "kind", ""))) = "annotation"
                 \/ Contains(Lower(Strip(Get(ops[i], "entity_id", ""))), "annotation")

\* lines 964-993: r is what apply_ops did to the scene object the handler
\* holds; autosave saves the scene the store serves; the envelope
turn_applied(st, ref, scene_id, current_revision, r) ==
    IF r.err # ""
    THEN [ store |-> [st EXCEPT !.heap[ref] = r.scene],
           response |-> [ status |-> 422, error |-> r.err, base_revision |-> current_revision,
                          revision |-> 0, patches |-> << >> ] ]
    ELSE [ store |-> save_scene([st EXCEPT !.heap[ref] = r.scene], scene_id),
           response |-> [ status |-> 200, error |-> "", base_revision |-> current_revision,
                          revision |-> r.scene.revision,
                          patches |-> [i \in 1..Len(r.applied) |-> r.applied[i].op_id] ] ]

(***************************************************************************)
(* Agent run manager (agent_runtime/manager.py): the sqlite tables and the *)
(* worker loop with its tasks                                              *)
(***************************************************************************)
Null == "<null>"

\* _init_db on a new file: both tables empty; queue_id is the row's position
NewDb == [runs |-> EmptyDict, queue |-> << >>]

\* no process
Down == [worker |-> "down"]

\* __init__: tasks maps the queue id of a claimed item to its coroutine
NewManager(max_concurrent_turns) ==
    [ worker |-> "none", wake |-> FALSE, tasks |-> EmptyDict, awaited |-> {},
      max_concurrent_turns |-> IF max_concurrent_turns < 1 THEN 1 ELSE max_concurrent_turns,
      recovered |-> {}, starting |-> FALSE ]

Processing(d) == {i \in 1..Len(d.queue) : d.queue[i].status = "processing"}

\* the run ids _recover_inflight returns
inflight_runs(d) ==
    {d.queue[i].run_id : i \in Processing(d)} \cup {r \in DOMAIN d.runs : d.runs[r].status = "running"}

\* mutant: only the items of running runs are put back
recover_inflight_running_only(d) ==
    IF inflight_runs(d) = {} THEN d
    ELSE [ runs |-> [r \in DOMAIN d.runs |->
                       IF d.runs[r].status = "running"
                       THEN [d.runs[r] EXCEPT !.status = "idle", !.last_error = ""]
                       ELSE d.runs[r]],
           queue |-> [i \in 1..Len(d.queue) |->
                        IF d.queue[i].status = "processing" /\ d.runs[d.queue[i].run_id].status = "running"
                        THEN [d.queue[i] EXCEPT !.status = "queued", !.turn_id = Null, !.error = ""]
                        ELSE d.queue[i]] ]

recover_inflight(d) ==
    IF inflight_runs(d) = {} THEN d
    ELSE [ runs |-> [r \in DOMAIN d.runs |->
                       IF d.runs[r].status = "running"
                       THEN [d.runs[r] EXCEPT !.status = "idle", !.last_error = ""]
                       ELSE d.runs[r]],
           queue |-> [i \in 1..Len(d.queue) |->
                        IF d.queue[i].status = "processing"
                        THEN [d.queue[i] EXCEPT !.status = "queued", !.turn_id = Null, !.error = ""]
                        ELSE d.queue[i]] ]

create_run(d, run_id, auto_run) ==
    [d EXCEPT !.runs = Put(d.runs, run_id, [status |-> "idle", auto_run |-> auto_run, last_error |-> ""])]

enqueue(d, run_id) ==
    [d EXCEPT !.queue = Append(d.queue, [run_id |-> run_id, status |-> "queued", turn_id |-> Null, error |-> ""])]

\* mutant: enqueue never sets _wake
enqueue_wakes_never(d, run_id) == FALSE

\* enqueue sets _wake for an auto run that is idle or running
enqueue_wakes(d, run_id) == d.runs[run_id].auto_run /\ d.runs[run_id].status \in {"idle", "running"}

set_run_status(d, run_id, status) == [d EXCEPT !.runs[run_id].status = status]

\* the rows the worker's SELECT matches
Claimable(d) ==
    { i \in 1..Len(d.queue) :
        /\ d.queue[i].status = "queued"
        /\ d.queue[i].run_id \in DOMAIN d.runs
        /\ d.runs[d.queue[i].run_id].auto_run
        /\ d.runs[d.queue[i].run_id].status \in {"idle", "running"} }

Least(S) == CHOOSE i \in S : \A j \in S : i <= j

\* the two UPDATEs of a claim
claimed(d, queue_id) ==
    [d EXCEPT !.queue[queue_id].status = "processing", !.runs[d.queue[queue_id].run_id].status = "running"]

\* _claim_next_for_run with manual=True: the oldest queued item of the run
QueuedOf(d, run_id) == {i \in 1..Len(d.queue) : d.queue[i].status = "queued" /\ d.queue[i].run_id = run_id}

claimed_for_run(d, queue_id) ==
    [claimed(d, queue_id) EXCEPT !.runs[d.queue[queue_id].run_id].last_error = ""]

NewTask(manual) == [pc |-> "running", manual |-> manual, ok |-> FALSE]

ActiveTasks(m) == {q \in DOMAIN m.tasks : ~m.tasks[q].manual}

\* the inner loop of _worker_loop: claim and start tasks while there is room
RECURSIVE claim_while_room(_, _)
claim_while_room(d, m) ==
    IF Cardinality(ActiveTasks(m)) >= m.max_concurrent_turns \/ Claimable(d) = {}
    THEN [db |-> d, manager |-> m]
    ELSE claim_while_room(claimed(d, Least(Claimable(d))),
                          [m EXCEPT !.tasks = Put(m.tasks, Least(Claimable(d)), NewTask(FALSE))])

\* after the inner loop: back to _wake.wait() or into asyncio.wait on a copy
worker_waits(m) ==
    IF ActiveTasks(m) = {} THEN [m EXCEPT !.worker = "wait_wake"]
    ELSE [m EXCEPT !.worker = "wait_tasks", !.awaited = ActiveTasks(m)]

\* mutant: a failed item is put back in the queue
turn_failed_requeued(d, queue_id) ==
    [d EXCEPT !.queue[queue_id].status = "queued", !.queue[queue_id].error = "boom",
              !.runs[d.queue[queue_id].run_id].status = "error",
              !.runs[d.queue[queue_id].run_id].last_error = "boom"]

\* the except branch of _process_queue_item
turn_failed(d, queue_id) ==
    [d EXCEPT !.queue[queue_id].status = "error", !.queue[queue_id].error = "boom",
              !.runs[d.queue[queue_id].run_id].status = "error",
              !.runs[d.queue[queue_id].run_id].last_error = "boom"]

next_status(status) == IF status \in {"stopped", "paused"} THEN status ELSE "idle"

turn_completed(d, queue_id) ==
    [d EXCEPT !.queue[queue_id].status = "done", !.queue[queue_id].turn_id = "turn",
              !.queue[queue_id].error = "",
              !.runs[d.queue[queue_id].run_id].status = next_status(@),
              !.runs[d.queue[queue_id].run_id].last_error = ""]

(***************************************************************************)
(* The scene under a stream of calls                                       *)
(***************************************************************************)
\* caps of the safety policy in force (default_policy reads each of them from
\* the environment, minimum 1)
MaxEntities2D == 1
MaxEntities3D == 1
MaxMaterials == 1
MaxBehaviors == 1
MaxPatchOps == 2
DefaultMaxHz == 30

Policy ==
    [ max_entities_2d |-> MaxEntities2D,
      max_entities_3d |-> MaxEntities3D,
      max_patch_ops_per_turn |-> MaxPatchOps,
      max_materials |-> MaxMaterials,
      max_behaviors |-> MaxBehaviors,
      max_uniform_update_hz |-> DefaultMaxHz ]

\* calls made on one scene: with the wide op universes, with the narrow ones
MaxCalls == 2
MaxLongCalls == 3

Op(name, op_id, at_ms, fields) == Merge([op |-> name, op_id |-> op_id, at_ms |-> at_ms], fields)

\* every batch of at most max_patch_ops_per_turn ops, and one batch over it per op
BatchesOver(universe) ==
    UNION { [1..n -> universe] : n \in 0..MaxPatchOps }
      \cup { [i \in 1..(MaxPatchOps + 1) |-> op] : op \in universe }

BloopMachine == [states |-> [idle |-> [transitions |-> << [event |-> "bloop", to |-> "bloop"] >>]]]

\* entity ops under two op ids, so that an op id comes back with another kind
\* and payload
EntityOps ==
    UNION { { Op("createEntity", id, 0, [entity_id |-> "fish", kind |-> "fish", data |-> [x |-> 10]]),
              Op("createEntity", id, 0, [kind |-> " Mesh"]),
              Op("createEntity", id, 0, [entity_id |-> "entity:raw", kind |-> "bowl"]),
              Op("updateEntity", id, 0, [entity_id |-> "fish", changes |-> [x |-> 30]]),
              Op("updateEntity", id, 0, [entity_id |-> "ghost", changes |-> [x |-> 30]]),
              Op("destroyEntity", id, 0, [entity_id |-> "fish"]),
              Op("trigger", id, 0, [target_id |-> "fish", action |-> "bloop"]) } : id \in {"a", "b"} }

EntityBatches == BatchesOver(EntityOps)

\* creation of every kind of record, by name and anonymous, and ops that fail
GraphOps ==
    { Op("createEntity", "e1", 0, [entity_id |-> "fish", kind |-> "fish"]),
      Op("createEntity", "e2", 0, [kind |-> "bowl"]),
      Op("createEntity", "e3", 0, [kind |-> "mesh"]),
      Op("createEntity", "e4", 0, [entity_id |-> "lamp", kind |-> "Light"]),
      Op("createMaterial", "m1", 0, [material_id |-> "water",
                                     data |-> [type |-> "recipe", recipe_id |-> "water_volume_tint"]]),
      Op("createMaterial", "m2", 0, [data |-> [type |-> "pbr"]]),
      Op("createBehavior", "b1", 0, [behavior_id |-> "bloop", target_id |-> "fish", data |-> BloopMachine]),
      Op("createBehavior", "b2", 0, [target_id |-> "fish", data |-> EmptyDict]),
      Op("trigger", "t1", 0, [target_id |-> "ghost", action |-> "bloop"]),
      Op("updateMaterial", "u1", 0, [material_id |-> "ghost", changes |-> [type |-> "pbr"]]) }

GraphBatches == BatchesOver(GraphOps)

\* one recipe material, updates of one of its uniforms 0, 32 and 33 ms apart,
\* and an update of a material that does not exist
SetDensity(op_id, at_ms) ==
    Op("setUniform", op_id, at_ms, [material_id |-> "water", uniform |-> "density", value |-> Num(500)])

UniformOps ==
    { Op("createMaterial", "m", 0, [material_id |-> "water",
                                    data |-> [type |-> "recipe", recipe_id |-> "water_volume_tint"]]),
      SetDensity("u00", 0),
      SetDensity("u32", 32),
      SetDensity("u33", 33),
      Op("setUniform", "z", 40, [material_id |-> "ghost", uniform |-> "density", value |-> Num(500)]) }

UniformBatches == BatchesOver(UniformOps)

\* ops around ids, and the (namespace, raw id) pairs canonical_id is called with
IdOps ==
    { Op("createEntity", "i1", 0, [entity_id |-> "fish", kind |-> "fish"]),
      Op("createEntity", "i2", 0, [kind |-> "fish"]),
      Op("updateEntity", "i3", 0, [entity_id |-> "ghost"]),
      Op("destroyEntity", "i4", 0, [entity_id |-> " Fish "]) }

IdBatches == BatchesOver(IdOps)

RawIds ==
    { <<ENTITY_NS, "fish">>, <<ENTITY_NS, " Fish ">>, <<ENTITY_NS, "">>,
      <<ENTITY_NS, "entity:fish#001">>, <<MATERIAL_NS, "fish">> }

\* one-op batches that reference records by name: named, absent ("ghost") and
\* blank ids
ProbeIds == {"fish", "ghost", "water", "bloop", ""}

RefProbes ==
    { Op("updateEntity", "p", 0, [entity_id |-> id, changes |-> [x |-> 1]]) : id \in ProbeIds }
      \cup { Op("updateMaterial", "p", 0, [material_id |-> id, changes |-> [type |-> "pbr"]]) : id \in ProbeIds }
      \cup { Op("updateBehavior", "p", 0, [behavior_id |-> id, changes |-> [state |-> "idle"]]) : id \in ProbeIds }
      \cup { Op("setUniform", "p", 0, [material_id |-> id, uniform |-> "density", value |-> Num(500)]) :
                id \in ProbeIds }
      \cup { Op("applyMaterial", "p", 0, [entity_id |-> e, material_id |-> m]) : e \in ProbeIds, m \in ProbeIds }
      \cup { Op("createBehavior", "p", 0, [behavior_id |-> "fresh", target_id |-> id, data |-> EmptyDict]) :
                id \in ProbeIds }
      \cup { Op("trigger", "p", 0, [target_id |-> id, action |-> a]) : id \in ProbeIds, a \in {"bloop", ""} }

\* policies that differ in max_uniform_update_hz only: below and at the rate
\* of most recipes
PolicyRates == {10, 30}

PolicyAt(max_hz) == [Policy EXCEPT !.max_uniform_update_hz = max_hz]

SetUniformOp(op_id, at_ms, material_id, uniform, milli) ==
    Op("setUniform", op_id, at_ms, [material_id |-> material_id, uniform |-> uniform, value |-> Num(milli)])

\* a recipe material with a 30 Hz uniform, one with a 15 Hz uniform, a material
\* without recipe (their op ids sort first in a batch); updates of each 50 ms
\* apart, and values above the range
RateOps ==
    { Op("createMaterial", "c1", 0, [material_id |-> "water",
                                     data |-> [type |-> "recipe", recipe_id |-> "water_volume_tint"]]),
      Op("createMaterial", "c2", 0, [material_id |-> "caustic",
                                     data |-> [type |-> "recipe", recipe_id |-> "caustic_overlay_shader"]]),
      Op("createMaterial", "c3", 0, [material_id |-> "paint", data |-> [type |-> "pbr"]]),
      SetUniformOp("d00", 0, "water", "density", 500),
      SetUniformOp("d50", 50, "water", "density", 500),
      SetUniformOp("x20", 20, "water", "density", 1500),
      SetUniformOp("x50", 50, "water", "density", 1500),
      SetUniformOp("s00", 0, "caustic", "scale", 1000),
      SetUniformOp("s50", 50, "caustic", "scale", 1000),
      SetUniformOp("g00", 0, "paint", "gloss", 500),
      SetUniformOp("g50", 50, "paint", "gloss", 500) }

RateBatches == BatchesOver(RateOps)

\* a policy that admits turns large enough to look like a rebuild
MaxRebuildOps == 23
MaxRebuildEntities == 32

RebuildPolicy ==
    [Policy EXCEPT !.max_patch_ops_per_turn = MaxRebuildOps, !.max_entities_2d = MaxRebuildEntities]

\* entities a first turn creates: int(0.4 * 22) = 8, int(0.4 * 23) = 9
SeedSizes == {1, 22, 23}

\* how many createEntity ops, and how many destroyEntity ops, a later turn has
ChurnSides == {2, 3, 5, 6}

SeedBatch(n) ==
    [i \in 1..n |-> Op("createEntity", "seed-op-" \o ZeroPad(i, 3), 0,
                       [entity_id |-> "entity-" \o ToString(i), kind |-> "shape"])]

\* d destroyEntity ops on the seeded entities, then c createEntity ops
ChurnBatch(c, d) ==
    [i \in 1..(c + d) |->
        IF i <= d
        THEN Op("destroyEntity", "rebuild-destroy-" \o ZeroPad(i, 3), 0, [entity_id |-> "entity-" \o ToString(i)])
        ELSE Op("createEntity", "rebuild-create-" \o ZeroPad(i - d, 3), 0,
                [entity_id |-> "replacement-" \o ToString(i - d), kind |-> "shape"])]

\* the seeds, every mix of creates and destroys, and one turn over the op cap
RebuildBatches ==
    { SeedBatch(n) : n \in SeedSizes }
      \cup { ChurnBatch(c, d) : c \in ChurnSides, d \in ChurnSides }
      \cup { ChurnBatch(MaxRebuildOps, 3) }

\* a machine with two entries for one event, an entry without target state,
\* and an event that only another state's list has
TideMachine ==
    [states |->
       [idle |-> [transitions |-> << [event |-> "bloop", to |-> "bloop"],
                                     [event |-> "bloop", to |-> "rest"],
                                     [event |-> "halt", to |-> ""] >>],
        bloop |-> [transitions |-> << [event |-> "rest", to |-> "idle"] >>]]]

\* one-op turns around the behavior "bloop" of the entity "fish"
TriggerOps ==
    { Op("createEntity", "e", 0, [entity_id |-> "fish", kind |-> "fish"]),
      Op("createBehavior", "b", 0, [behavior_id |-> "bloop", target_id |-> "fish", data |-> TideMachine]) }
      \cup { Op("trigger", "t", 0, [target_id |-> "bloop", action |-> a]) :
                a \in {"bloop", "rest", "halt", "swim"} }

\* entity, behavior and trigger in one turn, in this order (no op ids: the
\* normalizer numbers them)
BloopTurn ==
    << [op |-> "createEntity", entity_id |-> "fish", kind |-> "fish"],
       [op |-> "createBehavior", behavior_id |-> "bloop", target_id |-> "fish", data |-> BloopMachine],
       [op |-> "trigger", target_id |-> "bloop", action |-> "bloop"] >>

TriggerPolicy == [Policy EXCEPT !.max_patch_ops_per_turn = Len(BloopTurn)]

\* the handlers of /v2/orchestrate requests in flight, all for one scene, the
\* base_revision a request carries, and the actor patches a turn returns
Handlers == {"h1", "h2"}
GatewayScene == "s"
BaseRevisions == {<< >>, << 0 >>, << 1 >>}
TurnPatches ==
    { << >>,
      << [op |-> "add", actor_id |-> "fish", value |-> [type |-> "fish"]] >>,
      << [op |-> "add", actor_id |-> "annotation-1", value |-> [type |-> "annotation"]] >>,
      << [op |-> "remove", actor_id |-> "fish", value |-> EmptyDict] >> }

NoResponse == [status |-> 0, error |-> "", base_revision |-> 0, revision |-> 0, patches |-> << >>]

IdleHandler ==
    [ pc |-> "idle", ref |-> 0, current_revision |-> 0, request_base |-> << >>, ops |-> << >>,
      response |-> NoResponse ]

\* calls made on the store
MaxStoreCalls == 4

\* scene ids and snapshot names as callers pass them, and what uuid4 can return
SceneIds == {"s", " s "}
SnapshotNames == {"a", " a ", ""}
Uuids == {"uuid-1"}

StoreOps ==
    { Op("createEntity", "c", 0, [entity_id |-> "fish", kind |-> "fish"]),
      Op("updateEntity", "u", 0, [entity_id |-> "fish", changes |-> [x |-> 30]]) }

\* one well-formed material and one op for every way an op can be refused
\* (the create sorts first in a batch)
CodeOps ==
    { Op("createMaterial", "a1", 0, [material_id |-> "water",
                                     data |-> [type |-> "recipe", recipe_id |-> "water_volume_tint"]]),
      Op("createMaterial", "k1", 0, [material_id |-> "glow", data |-> [type |-> "recipe"]]),
      Op("createEntity", "k2", 0, [entity_id |-> "fish"]),
      Op("updateEntity", "k3", 0, [entity_id |-> "ghost", changes |-> [x |-> 1]]),
      Op("updateBehavior", "k4", 0, [behavior_id |-> "ghost", changes |-> [state |-> "idle"]]),
      Op("trigger", "k5", 0, [target_id |-> "ghost", action |-> "bloop"]),
      Op("trigger", "k6", 0, [target_id |-> "", action |-> "bloop"]),
      Op("explode", "k7", 0, EmptyDict),
      Op("setUniform", "u1", 0, [material_id |-> "ghost", uniform |-> "density", value |-> Num(500)]),
      Op("setUniform", "u2", 0, [material_id |-> "water", uniform |-> " ", value |-> Num(500)]),
      Op("setUniform", "u3", 0, [material_id |-> "water", uniform |-> "density", value |-> NotNum]),
      Op("setUniform", "u4", 0, [material_id |-> "water", uniform |-> "density", value |-> Num(1500)]),
      Op("setUniform", "u5", 0, [material_id |-> "water", uniform |-> "density", value |-> Num(500)]),
      Op("setUniform", "u6", 10, [material_id |-> "water", uniform |-> "density", value |-> Num(600)]),
      Op("setUniform", "u7", 0, [material_id |-> "water", uniform |-> "hue", value |-> Num(500)]) }

CodeBatches == BatchesOver(CodeOps)

\* an entity, two behaviors on it whose op ids sort before the entity's (one
\* of them later in time), an update earlier in time, an op with an empty op id
OrderOps ==
    { Op("createEntity", "z1", 5, [entity_id |-> "fish", kind |-> "fish"]),
      Op("createBehavior", "a1", 5, [behavior_id |-> "bloop", target_id |-> "fish", data |-> BloopMachine]),
      Op("createBehavior", "a2", 9, [behavior_id |-> "sway", target_id |-> "fish", data |-> EmptyDict]),
      Op("updateEntity", "zz", 0, [entity_id |-> "fish", changes |-> [x |-> 1]]),
      Op("createEntity", "", 0, [entity_id |-> "bowl", kind |-> "bowl"]) }

OrderBatches == BatchesOver(OrderOps)

\* an entity and a behavior both named "fish", an entity "bowl" with no
\* behavior of its name, triggers at each of them, at a name nothing has, and
\* with target or action left empty
MaxTargetCalls == 4
TargetOps ==
    { Op("createEntity", "e", 0, [entity_id |-> "fish", kind |-> "fish"]),
      Op("createEntity", "f", 0, [entity_id |-> "bowl", kind |-> "bowl"]),
      Op("createBehavior", "g", 0, [behavior_id |-> "fish", target_id |-> "fish", data |-> BloopMachine]),
      Op("destroyBehavior", "h", 0, [behavior_id |-> "fish"]) }
      \cup { Op("trigger", "t", 3, [target_id |-> t, action |-> a]) :
                t \in {"fish", "bowl", "ghost", ""}, a \in {"bloop", ""} }

\* the entity "fish" with the material "water" bound to it and the behavior
\* "bloop" on it, built in two turns; then one-op turns that destroy "fish"
\* (by name, by canonical id), destroy an entity that is not there, create
\* "fish" again, and trigger the behavior
MaxDestroyCalls == 5
DestroySetUp ==
    { << Op("createEntity", "e", 0, [entity_id |-> "fish", kind |-> "fish"]),
         Op("createMaterial", "m", 1, [material_id |-> "water", data |-> [type |-> "unlit"]]) >>,
      << Op("applyMaterial", "n", 0, [entity_id |-> "fish", material_id |-> "water"]),
         Op("createBehavior", "o", 1, [behavior_id |-> "bloop", target_id |-> "fish", data |-> BloopMachine]) >> }
DestroyOps ==
    { Op("destroyEntity", "d", 0, [entity_id |-> id]) : id \in {"fish", "entity:fish#001", "ghost"} }
      \cup { Op("trigger", "t", 0, [target_id |-> "bloop", action |-> "bloop"]) }

\* the material "water", created with or without a recipe and with or without
\* uniforms of its own, updated in its uniforms or its recipe_id, and written
\* by setUniform inside and outside the range of water_volume_tint.density
MaterialOps ==
    { Op("createMaterial", "c", 0, [material_id |-> "water",
                                    data |-> [type |-> "recipe", recipe_id |-> "water_volume_tint"]]),
      Op("createMaterial", "d", 0, [material_id |-> "water",
                                    data |-> [type |-> "recipe", recipe_id |-> "water_volume_tint",
                                              uniforms |-> [density |-> 5000]]]),
      Op("createMaterial", "e", 0, [material_id |-> "water", data |-> [type |-> "unlit"]]),
      Op("updateMaterial", "f", 0, [material_id |-> "water", changes |-> [uniforms |-> [density |-> 5000]]]),
      Op("updateMaterial", "g", 0, [material_id |-> "water", changes |-> [recipe_id |-> "water_volume_tint"]]),
      SetUniformOp("s", 0, "water", "density", 500),
      SetUniformOp("x", 100, "water", "density", 5000) }

\* ops under two op ids, each op name once per id, at times that put them in
\* another order than the order of submission: an op that creates "fish",
\* ops that act on it, an op whose reference is missing, an op whose name is
\* not supported
DupOps ==
    UNION { { Op("createEntity", id, 5, [entity_id |-> "fish", kind |-> "fish"]),
              Op("trigger", id, 7, [target_id |-> "fish", action |-> "bloop"]),
              Op("destroyEntity", id, 9, [entity_id |-> "fish"]),
              Op("updateEntity", id, 0, [entity_id |-> "ghost", changes |-> [x |-> 30]]),
              Op("explode", id, 0, EmptyDict) } : id \in {"a", "b"} }

DupBatches == BatchesOver(DupOps)

\* the triggers of "fish", numbered in the order they are submitted for the
\* first time (op id and at_ms follow the number); turns carry one or LogRun
\* of them, and a turn may repeat LogRun triggers that were applied before
LogRun == 25
MaxLogged == 250
MaxLogCalls == 18
LogId(k) == "t" \o ZeroPad(k, 3)
LogTrigger(k) == Op("trigger", LogId(k), k, [target_id |-> "fish", action |-> "bloop"])
LogCreate == Op("createEntity", "c", 0, [entity_id |-> "fish", kind |-> "fish"])
LogPolicy == [Policy EXCEPT !.max_patch_ops_per_turn = LogRun + 1]
\* the number of the trigger with a given op id, and of the one a warning names
LogIds == [k \in 1..MaxLogged |-> LogId(k)]
LogWarnings == [k \in 1..MaxLogged |-> DuplicateWarning(LogIds[k])]
LogNumber == [op_id \in {LogIds[k] : k \in 1..MaxLogged} |-> CHOOSE k \in 1..MaxLogged : LogIds[k] = op_id]
WarnedNumber == [w \in {LogWarnings[k] : k \in 1..MaxLogged} |-> CHOOSE k \in 1..MaxLogged : LogWarnings[k] = w]

\* turns on the scene "s" of the store: one that creates "fish" and "water"
\* and binds them, one that destroys the material and then raises, and
\* one-op turns that bind (also to and from what is not there) and destroy
BindPolicy == [Policy EXCEPT !.max_patch_ops_per_turn = 3]
BindOps ==
    { Op("createEntity", "e", 0, [entity_id |-> "fish", kind |-> "fish"]),
      Op("createMaterial", "m", 1, [material_id |-> "water", data |-> [type |-> "pbr"]]),
      Op("applyMaterial", "n", 2, [entity_id |-> "fish", material_id |-> "water"]),
      Op("applyMaterial", "o", 2, [entity_id |-> "fish", material_id |-> "ghost"]),
      Op("applyMaterial", "p", 2, [entity_id |-> "ghost", material_id |-> "water"]),
      Op("destroyEntity", "q", 3, [entity_id |-> "fish"]),
      Op("destroyMaterial", "r", 3, [material_id |-> "water"]) }
BindTurns ==
    { << op >> : op \in BindOps }
      \cup { << Op("createEntity", "e", 0, [entity_id |-> "fish", kind |-> "fish"]),
                Op("createMaterial", "m", 1, [material_id |-> "water", data |-> [type |-> "pbr"]]),
                Op("applyMaterial", "n", 2, [entity_id |-> "fish", material_id |-> "water"]) >>,
             << Op("destroyMaterial", "r", 3, [material_id |-> "water"]),
                Op("updateEntity", "u", 4, [entity_id |-> "ghost", changes |-> [x |-> 1]]) >> }

\* ops that carry no op_id, of several names and payloads, and one that
\* carries one
AnonOps ==
    { [op |-> "createEntity", entity_id |-> "fish", kind |-> "fish"],
      [op |-> "createEntity", entity_id |-> "bowl", kind |-> "bowl"],
      [op |-> "updateEntity", entity_id |-> "fish", changes |-> [x |-> 30]],
      [op |-> "updateEntity", entity_id |-> "ghost", changes |-> [x |-> 30]],
      Op("destroyEntity", "x", 0, [entity_id |-> "fish"]) }

AnonBatches == BatchesOver(AnonOps)

\* one recipe material and two of its uniforms: updates of density at 0, 50
\* and 80 ms and one stamped before the turn's start, updates of blue_shift,
\* and the material destroyed and created again
KeyOps ==
    { Op("createMaterial", "k1", 0, [material_id |-> "water",
                                     data |-> [type |-> "recipe", recipe_id |-> "water_volume_tint"]]),
      Op("createMaterial", "k2", 0, [material_id |-> "water",
                                     data |-> [type |-> "recipe", recipe_id |-> "water_volume_tint"]]),
      Op("destroyMaterial", "k9", 90, [material_id |-> "water"]),
      SetUniformOp("n05", -5, "water", "density", 400),
      SetUniformOp("d00", 0, "water", "density", 500),
      SetUniformOp("d50", 50, "water", "density", 600),
      SetUniformOp("d80", 80, "water", "density", 700),
      SetUniformOp("b00", 0, "water", "blue_shift", 100),
      SetUniformOp("b50", 50, "water", "blue_shift", 200) }

KeyBatches == BatchesOver(KeyOps)

\* two 2D entities and two materials against caps of one each, the ops that
\* take the second away again, and an update of an entity that does not exist
CapOps ==
    { Op("createEntity", "a1", 0, [entity_id |-> "fish", kind |-> "fish"]),
      Op("createEntity", "a2", 0, [entity_id |-> "bowl", kind |-> "bowl"]),
      Op("destroyEntity", "a3", 0, [entity_id |-> "bowl"]),
      Op("updateEntity", "a4", 0, [entity_id |-> "ghost", changes |-> [x |-> 1]]),
      Op("createMaterial", "a5", 0, [material_id |-> "water", data |-> [type |-> "pbr"]]),
      Op("createMaterial", "a6", 0, [material_id |-> "oil", data |-> [type |-> "pbr"]]),
      Op("destroyMaterial", "a7", 0, [material_id |-> "oil"]) }

CapBatches == BatchesOver(CapOps)

\* creates under names and under ids already in canonical form
MergeOps ==
    { Op("createEntity", "g1", 0, [entity_id |-> "entity:fish#001", kind |-> "bowl"]),
      Op("createEntity", "g2", 0, [entity_id |-> "fish", kind |-> "fish"]),
      Op("createEntity", "g3", 0, [entity_id |-> "bowl", kind |-> "bowl"]),
      Op("destroyEntity", "g4", 0, [entity_id |-> "fish"]),
      Op("createMaterial", "g5", 0, [material_id |-> "mat:water#001", data |-> [type |-> "pbr"]]),
      Op("createMaterial", "g6", 0, [material_id |-> "water", data |-> [type |-> "toon"]]) }

MergeBatches == BatchesOver(MergeOps)

\* ops on one entity, each with an op id of its own or sharing "p1": two ops
\* stamped before the turn's start at different times, two at 2 ms under
\* different op ids, one at 1 ms and one at 4 ms
PermOps ==
    { Op("createEntity", "p1", -5, [entity_id |-> "fish", kind |-> "fish"]),
      Op("destroyEntity", "p1", -3, [entity_id |-> "fish"]),
      Op("updateEntity", "p1", 4, [entity_id |-> "fish", changes |-> [x |-> 1]]),
      Op("createEntity", "p2", 2, [entity_id |-> "fish", kind |-> "bowl"]),
      Op("updateEntity", "p0", 2, [entity_id |-> "fish", changes |-> [x |-> 2]]),
      Op("destroyEntity", "p3", 1, [entity_id |-> "fish"]) }

MaxPermOps == 3
PermPolicy == [Policy EXCEPT !.max_patch_ops_per_turn = MaxPermOps]
PermBatches == UNION { [1..n -> PermOps] : n \in 0..MaxPermOps }

\* ops as callers hand them to the normalizer: at_ms missing, negative or
\* positive; op_id missing or given (one that equals a synthetic id); two op names
MaxNormalized == 3
NormalizeTimes == { EmptyDict, [at_ms |-> 0 - 5], [at_ms |-> 7] }
NormalizeIds == { EmptyDict, [op_id |-> "a"], [op_id |-> "op-00000"] }
NormalizeShapes ==
    { Merge(Merge([op |-> name], t), i) :
        name \in {"createEntity", "destroyEntity"}, t \in NormalizeTimes, i \in NormalizeIds }
NormalizeInputs == UNION { [1..n -> NormalizeShapes] : n \in 0..MaxNormalized }

\* runs, queue length and max_concurrent_turns of the agent run manager
RunIds == {"r1", "r2"}
MaxItems == 2
ConcurrentTurns == {1, 2}

\* ids of two scenes, one of them also written with blanks around it
TwoSceneIds == {"s", " s ", "t"}

VARIABLES
    scene,          \* the scene document
    calls,          \* number of calls made so far
    result,         \* what the last call did (single: the op of a one-op batch)
    effect_count,   \* op_id -> how often an op with that id was carried out (2 = more than once)
    resolved,       \* alias key -> the ids canonical_id returned to direct calls
    uniform_gaps,   \* consecutive accepted updates of one (material, uniform) key
    store,          \* the SceneV2Store: heap of scene dicts, _scenes, the files
    taken,          \* (scene id, name) -> the scene served when snapshot was called, and
                    \* whether only apply calls followed
    handlers,       \* handler -> where it is in _execute_turn_v2, its locals, its response
    db,             \* the agent run database: the runs and queue tables
    manager         \* the AgentRunManager of the running process: worker, _wake, tasks

vars == << scene, calls, result, effect_count, resolved, uniform_gaps, store, taken, handlers,
           db, manager >>

\* the op ids of a batch, as the normalizer fills them in
OpIdsOf(ops) == [i \in 1..Len(ops) |-> OpIdAt(ops[i], i - 1)]

Range(seq) == {seq[i] : i \in 1..Len(seq)}

NoResult ==
    [ call |-> "none", err |-> "", stage |-> "", submitted |-> << >>, applied |-> << >>,
      warnings |-> << >>, raised_at |-> EmptyDict, retry |-> << >>, is_retry |-> FALSE,
      single |-> EmptyDict, max_hz |-> DefaultMaxHz, explicit_rebuild |-> FALSE,
      kinds |-> << >>, scene_id |-> "", name |-> "", revision_before |-> 0 ]

Init ==
    /\ scene = new_scene_state
    /\ calls = 0
    /\ result = NoResult
    /\ effect_count = EmptyDict
    /\ resolved = EmptyDict
    /\ uniform_gaps = {}
    /\ store = NewStore
    /\ taken = EmptyDict
    /\ handlers = [h \in Handlers |-> IdleHandler]
    /\ db = NewDb
    /\ manager = Down

\* one more effect for every op that _apply_single_op carried out
Counted(counts, applied) ==
    [id \in (DOMAIN counts) \cup {applied[i].op_id : i \in 1..Len(applied)} |->
        LET now == Get(counts, id, 0) + Cardinality({i \in 1..Len(applied) : applied[i].op_id = id})
        IN IF now > 2 THEN 2 ELSE now]

\* the pairs (accepted before, accepted now) of setUniform ops on one key among
\* the ops a call carried out; last_at is uniform_update_at as it goes
RECURSIVE GapsOf(_, _, _, _, _)
GapsOf(applied, i, last_at, after, policy) ==
    IF i > Len(applied) THEN {}
    ELSE LET op == applied[i]
             material_id == canonical_id(after, MATERIAL_NS, Get(op, "material_id", "")).id
             uniform_name == Strip(Get(op, "uniform", ""))
             key == UniformKey(material_id, uniform_name)
             max_hz == EffectiveHz(Get(after.materials, material_id, EmptyDict), uniform_name, policy)
         IN IF op.op # "setUniform" THEN GapsOf(applied, i + 1, last_at, after, policy)
            ELSE (IF key \in DOMAIN last_at
                  THEN {[key |-> key, t1 |-> last_at[key], t2 |-> op.at_ms, max_hz |-> max_hz]}
                  ELSE {})
                 \cup GapsOf(applied, i + 1, Put(last_at, key, op.at_ms), after, policy)

\* one call of apply_ops on the scene, under the policy the caller passes
ApplyUnder(ops, policy, explicit_rebuild, limit) ==
    /\ calls < limit
    /\ \E r \in {apply_ops(scene, ops, policy, explicit_rebuild)} :
          /\ calls' = calls + 1
          /\ scene' = r.scene
          /\ result' = [ call |-> "apply", err |-> r.err, stage |-> r.stage,
                         submitted |-> OpIdsOf(ops), applied |-> OpIdsOf(r.applied),
                         warnings |-> r.warnings, raised_at |-> r.raised_at,
                         retry |-> IF r.stage = "op" THEN ops ELSE << >>,
                         is_retry |-> result.retry # << >> /\ ops = result.retry,
                         single |-> IF Len(ops) = 1 THEN ops[1] ELSE EmptyDict,
                         max_hz |-> policy.max_uniform_update_hz,
                         explicit_rebuild |-> explicit_rebuild,
                         kinds |-> [i \in 1..Len(ops) |-> ops[i].op] ]
          /\ effect_count' = Counted(effect_count, r.applied)
          /\ uniform_gaps' = uniform_gaps
                               \cup GapsOf(r.applied, 1, scene.uniform_update_at, r.scene, policy)
          /\ resolved' = [k \in DOMAIN resolved |-> [resolved[k] EXCEPT !.applied_since = TRUE]]
          /\ UNCHANGED << store, taken, handlers, db, manager >>

Apply(ops, explicit_rebuild, limit) == ApplyUnder(ops, Policy, explicit_rebuild, limit)

ApplyEntityOps == \E ops \in EntityBatches : Apply(ops, FALSE, MaxCalls)

ApplyGraphOps == \E ops \in GraphBatches : Apply(ops, FALSE, MaxCalls)

\* a batch of one referencing op, under an op id no earlier call used
ApplyRefProbe ==
    \E op \in RefProbes : Apply(<< Put(op, "op_id", "p" \o ToString(calls)) >>, FALSE, MaxCalls)

ApplyUniformOps == \E ops \in UniformBatches : Apply(ops, FALSE, MaxLongCalls)

ApplyIdOps == \E ops \in IdBatches : Apply(ops, FALSE, MaxLongCalls)

\* a direct call of canonical_id, as translate.py makes them
ResolveId ==
    /\ calls < MaxLongCalls
    /\ \E pair \in RawIds :
         \E c \in {canonical_id(scene, pair[1], pair[2])} :
            LET key == AliasKey(pair[1], pair[2])
            IN /\ calls' = calls + 1
               /\ scene' = c.scene
               /\ result' = [NoResult EXCEPT !.call = "canonical_id"]
               /\ resolved' = Put(resolved, key,
                                  IF key \in DOMAIN resolved
                                  THEN [ resolved[key] EXCEPT !.last = c.id,
                                           !.again = TRUE, !.across_apply = resolved[key].applied_since ]
                                  ELSE [ namespace |-> pair[1], raw_id |-> pair[2], first |-> c.id,
                                         last |-> c.id, again |-> FALSE, applied_since |-> FALSE,
                                         across_apply |-> FALSE ])
               /\ UNCHANGED << effect_count, uniform_gaps, store, taken, handlers, db, manager >>

\* a call under a policy whose uniform rate the deployment configured
ApplyRateOps ==
    \E ops \in RateBatches, max_hz \in PolicyRates : ApplyUnder(ops, PolicyAt(max_hz), FALSE, MaxCalls)

\* a turn with or without the caller's declared intent to rebuild
ApplyRebuildOps ==
    \E ops \in RebuildBatches, explicit_rebuild \in BOOLEAN :
        ApplyUnder(ops, RebuildPolicy, explicit_rebuild, MaxCalls)

\* a turn of one op under an op id no earlier call used, or the three-op turn
ApplyTriggerOps ==
    \/ \E op \in TriggerOps :
          ApplyUnder(<< Put(op, "op_id", op.op_id \o ToString(calls)) >>, TriggerPolicy, FALSE, MaxLongCalls)
    \/ ApplyUnder(BloopTurn, TriggerPolicy, FALSE, MaxLongCalls)

\* apply_ops on the scene the store serves, autosave when it returned
\* (main.py 966-978), under an op id no earlier call used
StoreApplied(g, scene_id, r) ==
    /\ store' = IF r.err = ""
                THEN save_scene([g.store EXCEPT !.heap[g.ref] = r.scene], scene_id)
                ELSE [g.store EXCEPT !.heap[g.ref] = r.scene]
    /\ result' = [NoResult EXCEPT !.call = "apply", !.err = r.err, !.scene_id = scene_id,
                                  !.revision_before = Served(store, scene_id).revision]

StoreApply(scene_id, op) ==
    /\ calls < MaxStoreCalls
    /\ calls' = calls + 1
    /\ \E g \in {get_or_create(store, scene_id)} :
          StoreApplied(g, scene_id,
                       apply_ops(g.store.heap[g.ref], << Put(op, "op_id", op.op_id \o ToString(calls)) >>,
                                 Policy, FALSE))
    /\ UNCHANGED << scene, effect_count, resolved, uniform_gaps, taken, handlers, db, manager >>

Snapshot(scene_id, name) ==
    /\ calls < MaxStoreCalls
    /\ calls' = calls + 1
    /\ \E uuid \in Uuids : store' = snapshot(store, scene_id, name, uuid)
    /\ result' = [NoResult EXCEPT !.call = "snapshot", !.scene_id = scene_id, !.name = name,
                                  !.revision_before = Served(store, scene_id).revision]
    /\ taken' = Put([k \in DOMAIN taken |-> [taken[k] EXCEPT !.only_applies = FALSE]],
                    << scene_id, name >>,
                    [doc |-> Served(store, scene_id), only_applies |-> TRUE])
    /\ UNCHANGED << scene, effect_count, resolved, uniform_gaps, handlers, db, manager >>

Restore(scene_id, snapshot_id) ==
    /\ calls < MaxStoreCalls
    /\ calls' = calls + 1
    /\ \E r \in {restore(store, scene_id, snapshot_id)} :
          /\ store' = r.store
          /\ result' = [NoResult EXCEPT !.call = "restore", !.err = r.err, !.scene_id = scene_id,
                                        !.name = snapshot_id,
                                        !.revision_before = Served(store, scene_id).revision]
    /\ taken' = [k \in DOMAIN taken |->
                   IF k = << scene_id, snapshot_id >> THEN taken[k]
                   ELSE [taken[k] EXCEPT !.only_applies = FALSE]]
    /\ UNCHANGED << scene, effect_count, resolved, uniform_gaps, handlers, db, manager >>

\* the process ends and a new one opens the store over the same root
Restart ==
    /\ calls < MaxStoreCalls
    /\ calls' = calls + 1
    /\ store' = reopened(store)
    /\ result' = [NoResult EXCEPT !.call = "restart"]
    /\ taken' = [k \in DOMAIN taken |-> [taken[k] EXCEPT !.only_applies = FALSE]]
    /\ UNCHANGED << scene, effect_count, resolved, uniform_gaps, handlers, db, manager >>

\* lines 904-917: the handler runs up to its first await
Begin(h, base_revision) ==
    /\ handlers[h].pc = "idle"
    /\ \E g \in {get_or_create(store, GatewayScene)} :
          /\ store' = g.store
          /\ handlers' =
                [handlers EXCEPT ![h] =
                    IF revision_conflict(base_revision, g.store.heap[g.ref].revision)
                    THEN [@ EXCEPT !.pc = "done", !.request_base = base_revision,
                                   !.response = [NoResponse EXCEPT !.status = 409,
                                                                   !.error = "revision_conflict"]]
                    ELSE [@ EXCEPT !.pc = "turn", !.ref = g.ref, !.request_base = base_revision,
                                   !.current_revision = g.store.heap[g.ref].revision]]
    /\ result' = [NoResult EXCEPT !.call = "begin", !.name = h]
    /\ UNCHANGED << scene, calls, effect_count, resolved, uniform_gaps, taken, db, manager >>

\* lines 964-1006 for handler h: apply, autosave, envelope; t is the
\* translation the handler goes on with
Finished(h, t) ==
    \E f \in {turn_applied(store, handlers[h].ref, GatewayScene, handlers[h].current_revision,
                            apply_ops(t.scene, t.ops, Policy, FALSE))} :
        /\ store' = f.store
        /\ handlers' = [handlers EXCEPT ![h] = [@ EXCEPT !.pc = "done", !.ops = t.ops,
                                                          !.response = f.response]]

\* lines 926-963: the first turn came back; without a visual op the handler
\* awaits the reminder turn
Turn(h, patches) ==
    /\ handlers[h].pc = "turn"
    /\ \E t \in {patches_to_v2_ops(store.heap[handlers[h].ref], patches, h, 1)} :
          IF has_visual_delta_ops(t.ops)
          THEN Finished(h, t)
          ELSE /\ store' = [store EXCEPT !.heap[handlers[h].ref] = t.scene]
               /\ handlers' = [handlers EXCEPT ![h] = [@ EXCEPT !.pc = "reminder", !.ops = t.ops]]
    /\ result' = [NoResult EXCEPT !.call = "turn", !.name = h]
    /\ UNCHANGED << scene, calls, effect_count, resolved, uniform_gaps, taken, db, manager >>

\* lines 942-963: the reminder turn came back; its ops are taken when they
\* have a visual op, the first turn's otherwise
Remind(h, patches) ==
    /\ handlers[h].pc = "reminder"
    /\ \E t \in {patches_to_v2_ops(store.heap[handlers[h].ref], patches, h \o "r", 1)} :
          Finished(h, IF has_visual_delta_ops(t.ops) THEN t
                      ELSE [scene |-> t.scene, ops |-> handlers[h].ops])
    /\ result' = [NoResult EXCEPT !.call = "turn", !.name = h]
    /\ UNCHANGED << scene, calls, effect_count, resolved, uniform_gaps, taken, db, manager >>

AgentFrame ==
    UNCHANGED << scene, calls, result, effect_count, resolved, uniform_gaps, store, taken, handlers >>

Up == manager.worker # "down"

\* startup_event: the manager is built and start() runs up to its first await
\* (there is none when nothing was recovered)
Start(max_concurrent_turns) ==
    /\ ~Up
    /\ db' = recover_inflight(db)
    /\ manager' = [NewManager(max_concurrent_turns) EXCEPT
                     !.worker = "wait_wake",
                     !.recovered = inflight_runs(db),
                     !.starting = inflight_runs(db) # {},
                     !.wake = inflight_runs(db) = {}]
    /\ AgentFrame

\* start() after the run states were emitted
Started ==
    /\ Up /\ manager.starting
    /\ manager' = [manager EXCEPT !.starting = FALSE, !.wake = TRUE]
    /\ UNCHANGED db
    /\ AgentFrame

\* the process dies: the tables stay, the worker and its tasks are gone
Crash ==
    /\ Up
    /\ manager' = Down
    /\ UNCHANGED db
    /\ AgentFrame

CreateRun(run_id, auto_run) ==
    /\ Up /\ run_id \notin DOMAIN db.runs
    /\ db' = create_run(db, run_id, auto_run)
    /\ UNCHANGED manager
    /\ AgentFrame

Enqueue(run_id) ==
    /\ Up /\ run_id \in DOMAIN db.runs
    /\ Len(db.queue) < MaxItems
    /\ db' = enqueue(db, run_id)
    /\ manager' = [manager EXCEPT !.wake = @ \/ enqueue_wakes(db, run_id)]
    /\ AgentFrame

\* control(run_id, "pause" | "stop")
Halt(run_id, status) ==
    /\ Up /\ run_id \in DOMAIN db.runs
    /\ db' = set_run_status(db, run_id, status)
    /\ UNCHANGED manager
    /\ AgentFrame

\* control(run_id, "resume")
Resume(run_id) ==
    /\ Up /\ run_id \in DOMAIN db.runs
    /\ db' = set_run_status(db, run_id, "idle")
    /\ manager' = [manager EXCEPT !.wake = TRUE]
    /\ AgentFrame

\* control(run_id, "run_once"): the item is processed in the caller's coroutine
RunOnce(run_id) ==
    /\ Up /\ run_id \in DOMAIN db.runs
    /\ QueuedOf(db, run_id) # {}
    /\ db' = claimed_for_run(db, Least(QueuedOf(db, run_id)))
    /\ manager' = [manager EXCEPT !.tasks = Put(@, Least(QueuedOf(db, run_id)), NewTask(TRUE))]
    /\ AgentFrame

\* _worker_loop from _wake.wait() to its next await
WorkerWakes ==
    /\ Up /\ manager.worker = "wait_wake" /\ manager.wake
    /\ \E c \in {claim_while_room(db, [manager EXCEPT !.wake = FALSE])} :
          /\ db' = c.db
          /\ manager' = worker_waits(c.manager)
    /\ AgentFrame

\* the coroutine of the item returned (its done callback may have run or not)
task_done(m, queue_id) == IF queue_id \in DOMAIN m.tasks THEN m.tasks[queue_id].pc = "returned" ELSE TRUE

\* asyncio.wait returns: one of the tasks it was given is done
WorkerResumes ==
    /\ Up /\ manager.worker = "wait_tasks"
    /\ \E q \in manager.awaited : task_done(manager, q)
    /\ manager' = [manager EXCEPT !.worker = "wait_wake", !.awaited = {}]
    /\ UNCHANGED db
    /\ AgentFrame

\* the turn executor returns and the rows are updated
TurnReturns(queue_id) ==
    /\ Up /\ queue_id \in DOMAIN manager.tasks /\ manager.tasks[queue_id].pc = "running"
    /\ db' = turn_completed(db, queue_id)
    /\ manager' = [manager EXCEPT !.tasks[queue_id].pc = "reporting", !.tasks[queue_id].ok = TRUE]
    /\ AgentFrame

\* the turn executor raises and the rows are updated
TurnRaises(queue_id) ==
    /\ Up /\ queue_id \in DOMAIN manager.tasks /\ manager.tasks[queue_id].pc = "running"
    /\ db' = turn_failed(db, queue_id)
    /\ manager' = [manager EXCEPT !.tasks[queue_id].pc = "reporting"]
    /\ AgentFrame

\* the events are emitted and _process_queue_item returns (_wake.set() on the
\* success path); the coroutine of a manual item ends here
TaskReturns(queue_id) ==
    /\ Up /\ queue_id \in DOMAIN manager.tasks /\ manager.tasks[queue_id].pc = "reporting"
    /\ manager' = [manager EXCEPT
                     !.wake = @ \/ manager.tasks[queue_id].ok,
                     !.tasks = IF manager.tasks[queue_id].manual THEN Pop(@, queue_id)
                               ELSE [@ EXCEPT ![queue_id].pc = "returned"]]
    /\ UNCHANGED db
    /\ AgentFrame

\* _handle_task_done
HandleTaskDone(queue_id) ==
    /\ Up /\ queue_id \in DOMAIN manager.tasks /\ manager.tasks[queue_id].pc = "returned"
    /\ manager' = [manager EXCEPT !.tasks = Pop(@, queue_id), !.wake = TRUE]
    /\ UNCHANGED db
    /\ AgentFrame

QueueIds == 1..MaxItems

WorkerSteps ==
    \/ WorkerWakes
    \/ WorkerResumes
    \/ \E q \in QueueIds : TurnReturns(q)
    \/ \E q \in QueueIds : TurnRaises(q)
    \/ \E q \in QueueIds : TaskReturns(q)
    \/ \E q \in QueueIds : HandleTaskDone(q)

Requests ==
    \/ \E run_id \in RunIds, auto_run \in BOOLEAN : CreateRun(run_id, auto_run)
    \/ \E run_id \in RunIds : Enqueue(run_id)
    \/ \E run_id \in RunIds, status \in {"paused", "stopped"} : Halt(run_id, status)
    \/ \E run_id \in RunIds : Resume(run_id)
    \/ \E run_id \in RunIds : RunOnce(run_id)

NextRecover ==
    \/ \E n \in ConcurrentTurns : Start(n)
    \/ Started
    \/ Crash
    \/ Requests
    \/ WorkerSteps

SpecRecover == Init /\ [][NextRecover]_vars

\* the manager of a process that stays up
NextWorker ==
    \/ \E n \in ConcurrentTurns : Start(n)
    \/ Requests
    \/ WorkerSteps

\* the event loop runs every coroutine that can run; the turn executor
\* always returns or raises
WorkerFairness ==
    /\ WF_vars(\E n \in ConcurrentTurns : Start(n))
    /\ WF_vars(WorkerWakes)
    /\ WF_vars(WorkerResumes)
    /\ \A q \in QueueIds :
          /\ WF_vars(TurnReturns(q) \/ TurnRaises(q))
          /\ WF_vars(TaskReturns(q))
          /\ WF_vars(HandleTaskDone(q))

SpecWorker == Init /\ [][NextWorker]_vars /\ WorkerFairness

ApplyOrderOps == \E ops \in OrderBatches : Apply(ops, FALSE, MaxLongCalls)

NextOrder == ApplyOrderOps

SpecOrder == Init /\ [][NextOrder]_vars

\* one-op turns at an entity and a behavior of one name, each op under an op
\* id no earlier call used
ApplyTargetOps ==
    \E op \in TargetOps :
        Apply(<< Put(op, "op_id", op.op_id \o ToString(calls)) >>, FALSE, MaxTargetCalls)

NextTarget == ApplyTargetOps

SpecTarget == Init /\ [][NextTarget]_vars

\* the turns that build the scene around "fish", and one-op turns on it, each
\* op under an op id no earlier call used
ApplyDestroyOps ==
    \/ \E ops \in DestroySetUp : Apply(ops, FALSE, MaxDestroyCalls)
    \/ \E op \in DestroyOps :
          Apply(<< Put(op, "op_id", op.op_id \o ToString(calls)) >>, FALSE, MaxDestroyCalls)

NextDestroy == ApplyDestroyOps

SpecDestroy == Init /\ [][NextDestroy]_vars

\* one-op turns on the material, each op under an op id no earlier call used
ApplyMaterialOps ==
    \E op \in MaterialOps :
        Apply(<< Put(op, "op_id", op.op_id \o ToString(calls)) >>, FALSE, MaxLongCalls)

NextMaterial == ApplyMaterialOps

SpecMaterial == Init /\ [][NextMaterial]_vars

ApplyDupOps == \E ops \in DupBatches : Apply(ops, FALSE, MaxCalls)

NextDup == ApplyDupOps

SpecDup == Init /\ [][NextDup]_vars

\* a turn of triggers not submitted before (with the entity, in the first of
\* them), or, once trigger_log is full, a turn that repeats the LogRun
\* triggers after the last one a warning named
ApplyLogOps ==
    \/ \E n \in {1, LogRun} :
          LET done == Cardinality(scene.applied_op_ids \ {LogCreate.op_id})
          IN /\ done + n <= MaxLogged
             /\ ApplyUnder((IF scene.entities = EmptyDict THEN << LogCreate >> ELSE << >>)
                              \o [k \in 1..n |-> LogTrigger(done + k)],
                           LogPolicy, FALSE, MaxLogCalls)
    \/ LET warned == IF scene.warnings = << >> THEN 0
                      ELSE WarnedNumber[scene.warnings[Len(scene.warnings)]]
       IN /\ Len(scene.trigger_log) >= HistoryCap
          /\ LogId(warned + LogRun) \in scene.applied_op_ids
          /\ ApplyUnder([k \in 1..LogRun |-> LogTrigger(warned + k)], LogPolicy, FALSE, MaxLogCalls)

NextLog == ApplyLogOps

SpecLog == Init /\ [][NextLog]_vars

\* apply_ops with a turn of ops on the scene the store serves, autosave when
\* it returned, each op under an op id no earlier call used
StoreApplyTurn(scene_id, ops) ==
    /\ calls < MaxStoreCalls
    /\ calls' = calls + 1
    /\ \E g \in {get_or_create(store, scene_id)} :
          StoreApplied(g, scene_id,
                       apply_ops(g.store.heap[g.ref],
                                 [k \in 1..Len(ops) |-> Put(ops[k], "op_id", ops[k].op_id \o ToString(calls))],
                                 BindPolicy, FALSE))
    /\ UNCHANGED << scene, effect_count, resolved, uniform_gaps, taken, handlers, db, manager >>

NextBind ==
    \/ \E ops \in BindTurns : StoreApplyTurn(GatewayScene, ops)
    \/ Snapshot(GatewayScene, "a")
    \/ Restore(GatewayScene, "a")

SpecBind == Init /\ [][NextBind]_vars

ApplyAnonOps == \E ops \in AnonBatches : Apply(ops, FALSE, MaxCalls)

NextAnon == ApplyAnonOps

SpecAnon == Init /\ [][NextAnon]_vars

\* turns that update the uniforms of one material
ApplyKeyOps == \E ops \in KeyBatches : Apply(ops, FALSE, MaxLongCalls)

NextKey == ApplyKeyOps

SpecKey == Init /\ [][NextKey]_vars

\* turns that fill the caps, exceed them and make room again
ApplyCapOps == \E ops \in CapBatches : Apply(ops, FALSE, MaxLongCalls)

NextCap == ApplyCapOps

SpecCap == Init /\ [][NextCap]_vars

\* turns that create records under names and under canonical ids
ApplyMergeOps == \E ops \in MergeBatches : Apply(ops, FALSE, MaxLongCalls)

NextMerge == ApplyMergeOps

SpecMerge == Init /\ [][NextMerge]_vars

\* turns of up to three ops in every order of submission
ApplyPermOps == \E ops \in PermBatches : ApplyUnder(ops, PermPolicy, FALSE, MaxCalls)

NextPerm == ApplyPermOps

SpecPerm == Init /\ [][NextPerm]_vars

\* a direct call of normalize_ops, as the tests make them
Normalize ==
    /\ calls = 0
    /\ \E ops \in NormalizeInputs :
         /\ calls' = calls + 1
         /\ result' = [NoResult EXCEPT !.call = "normalize_ops", !.submitted = ops,
                                       !.applied = normalize_ops(ops)]
         /\ UNCHANGED << scene, effect_count, resolved, uniform_gaps, store, taken, handlers,
                         db, manager >>

NextNormalize == Normalize

SpecNormalize == Init /\ [][NextNormalize]_vars

Next == ApplyEntityOps

Spec == Init /\ [][Next]_vars

NextGraph == ApplyGraphOps \/ ApplyRefProbe

SpecGraph == Init /\ [][NextGraph]_vars

NextUniform == ApplyUniformOps

SpecUniform == Init /\ [][NextUniform]_vars

NextIds == ApplyIdOps \/ ResolveId

SpecIds == Init /\ [][NextIds]_vars

NextRebuild == ApplyRebuildOps

SpecRebuild == Init /\ [][NextRebuild]_vars

NextTrigger == ApplyTriggerOps

SpecTrigger == Init /\ [][NextTrigger]_vars

NextStore ==
    \/ \E scene_id \in SceneIds, op \in StoreOps : StoreApply(scene_id, op)
    \/ \E scene_id \in SceneIds, name \in SnapshotNames : Snapshot(scene_id, name)
    \/ \E scene_id \in SceneIds, snapshot_id \in SnapshotNames \cup Uuids : Restore(scene_id, snapshot_id)

SpecStore == Init /\ [][NextStore]_vars

ApplyCodeOps == \E ops \in CodeBatches : Apply(ops, FALSE, MaxCalls)

NextCodes == ApplyCodeOps

SpecCodes == Init /\ [][NextCodes]_vars

NextScenes ==
    \/ \E scene_id \in TwoSceneIds, op \in StoreOps : StoreApply(scene_id, op)
    \/ \E scene_id \in TwoSceneIds : Snapshot(scene_id, "a")
    \/ \E scene_id \in TwoSceneIds : Restore(scene_id, "a")

SpecScenes == Init /\ [][NextScenes]_vars

NextRestart ==
    \/ \E scene_id \in SceneIds, op \in StoreOps : StoreApply(scene_id, op)
    \/ Restart

SpecRestart == Init /\ [][NextRestart]_vars

NextGateway ==
    \/ \E h \in Handlers, base_revision \in BaseRevisions : Begin(h, base_revision)
    \/ \E h \in Handlers, patches \in TurnPatches : Turn(h, patches)
    \/ \E h \in Handlers, patches \in TurnPatches : Remind(h, patches)
    \/ Snapshot(GatewayScene, "a")
    \/ Restore(GatewayScene, "a")

SpecGateway == Init /\ [][NextGateway]_vars

NextRate == ApplyRateOps

SpecRate == Init /\ [][NextRate]_vars

(***************************************************************************)
(* Properties                                                              *)
(***************************************************************************)
IsPrefix(a, b) == Len(a) <= Len(b) /\ SubSeq(b, 1, Len(a)) = a

\* the scene graph: what the ops are about
Content(s) == << s.entities, s.materials, s.behaviors, s.bindings >>

Returned == result.call = "apply" /\ result.err = ""

\* C1: every apply call that returns without raising, an empty batch and a
\* batch of already committed op ids included, leaves the revision exactly one
\* above what it was before the call.
C1_RevisionPlusOne ==
    [][(result'.call = "apply" /\ result'.err = "") => scene'.revision = scene.revision + 1]_vars

\* a second call made only of committed op ids has returned
C1_Witness ==
    /\ Returned
    /\ result.submitted # << >>
    /\ result.applied = << >>
    /\ scene.revision = 2

\* C2: over any sequence of apply calls, failed batches included, the mutation
\* of an op with a given op_id takes effect on the scene at most once.
C2_EffectAtMostOnce == \A id \in DOMAIN effect_count : effect_count[id] <= 1

\* C3: an op whose op_id an earlier successful apply committed is skipped by a
\* later call whatever its kind or payload: it is not carried out and not in
\* applied_ops, a returning call warns op_duplicate_ignored:<op_id>, and a batch
\* made only of such ops leaves entities, materials, behaviors and bindings as
\* they were.
C3_CommittedOpSkipped ==
    [][result'.call = "apply" =>
         /\ \A id \in scene.applied_op_ids :
              /\ id \notin Range(result'.applied)
              /\ Get(effect_count', id, 0) = Get(effect_count, id, 0)
              /\ (result'.err = "" /\ id \in Range(result'.submitted))
                    => DuplicateWarning(id) \in Range(result'.warnings)
         /\ (result'.err = "" /\ Range(result'.submitted) \subseteq scene.applied_op_ids)
               => Content(scene') = Content(scene)]_vars

\* a returning call skipped a committed op and carried out another one
C3_Witness ==
    /\ Returned
    /\ result.warnings # << >>
    /\ result.applied # << >>
    /\ scene.revision = 2

\* C4: whenever apply raises, whatever the error code and wherever it comes
\* from (an op at any position, the caps), revision and applied_op_ids are what
\* they were before the call and the warnings history got nothing appended.
C4_RaiseKeepsBookkeeping ==
    [][(result'.call = "apply" /\ result'.err # "") =>
         /\ scene'.revision = scene.revision
         /\ scene'.applied_op_ids = scene.applied_op_ids
         /\ scene'.warnings = scene.warnings]_vars

\* the caps rejected a batch that had carried out an op and skipped a duplicate
C4_Witness ==
    /\ result.call = "apply"
    /\ result.stage = "caps"
    /\ result.applied # << >>
    /\ result.warnings # << >>

EntitiesOfKind(s, kinds) == {e \in DOMAIN s.entities : s.entities[e].kind \in kinds}

\* C6: after every apply call that returns without raising, there are at most
\* max_entities_2d entities of a kind outside mesh/camera/light/environment, at
\* most max_entities_3d entities of one of these kinds, at most max_materials
\* materials and at most max_behaviors behaviors.
C6_CountsWithinCaps ==
    Returned =>
        /\ Cardinality((DOMAIN scene.entities) \ EntitiesOfKind(scene, THREE_D_KINDS)) <= MaxEntities2D
        /\ Cardinality(EntitiesOfKind(scene, THREE_D_KINDS)) <= MaxEntities3D
        /\ Cardinality(DOMAIN scene.materials) <= MaxMaterials
        /\ Cardinality(DOMAIN scene.behaviors) <= MaxBehaviors

\* an accepted batch filled the 2D and the 3D caps, the material and the behavior cap
C6_Witness ==
    /\ Returned
    /\ result.applied # << >>
    /\ Cardinality((DOMAIN scene.entities) \ EntitiesOfKind(scene, THREE_D_KINDS)) = MaxEntities2D
    /\ Cardinality(EntitiesOfKind(scene, THREE_D_KINDS)) = MaxEntities3D

\* the prefix every key of a namespace's map must carry
NsPrefix == [entity |-> "entity", material |-> "mat", behavior |-> "beh"]

AllDigits(s) == \A i \in 1..Len(s) : Char(s, i) \in CharsOf(Digits)

IsSlug(s) ==
    /\ s # ""
    /\ \A i \in 1..Len(s) : Char(s, i) \in CharsOf(LowerAlpha) \cup CharsOf(Digits) \cup {"_", "-"}

\* id is <pref>:<slug>#<counter>, the counter of three digits or more
IsMintedForm(id, pref) ==
    /\ StartsWith(id, pref \o ":")
    /\ \E h \in (Len(pref) + 2)..Len(id) :
          /\ Char(id, h) = "#"
          /\ IsSlug(SubSeq(id, Len(pref) + 2, h - 1))
          /\ Len(id) - h >= 3
          /\ AllDigits(SubSeq(id, h + 1, Len(id)))

KeysOf(s) ==
    [ entity |-> DOMAIN s.entities, material |-> DOMAIN s.materials, behavior |-> DOMAIN s.behaviors ]

AllKeysMinted(s) == \A ns \in DOMAIN NsPrefix : \A id \in KeysOf(s)[ns] : IsMintedForm(id, NsPrefix[ns])

AllKeysPrefixed(s) ==
    \A ns \in DOMAIN NsPrefix : \A id \in KeysOf(s)[ns] : StartsWith(id, NsPrefix[ns] \o ":")

AliasesKept(before, after) ==
    \A k \in DOMAIN before.id_aliases :
        k \in DOMAIN after.id_aliases /\ after.id_aliases[k] = before.id_aliases[k]

KeyFor(s, namespace, raw_id) == canonical_id(s, namespace, raw_id).id

NoEntity(s, op) == KeyFor(s, ENTITY_NS, op.entity_id) \notin DOMAIN s.entities
NoMaterial(s, op) == KeyFor(s, MATERIAL_NS, op.material_id) \notin DOMAIN s.materials
NoBehavior(s, op) == KeyFor(s, BEHAVIOR_NS, op.behavior_id) \notin DOMAIN s.behaviors
NoTarget(s, op) == KeyFor(s, ENTITY_NS, op.target_id) \notin DOMAIN s.entities

\* the unknown_* code an op must raise in scene s, "" when every record it
\* references is there
ExpectedUnknown(s, op) ==
    CASE op.op = "updateEntity" -> IF NoEntity(s, op) THEN "unknown_entity_id" ELSE ""
      [] op.op = "updateMaterial" -> IF NoMaterial(s, op) THEN "unknown_material_id" ELSE ""
      [] op.op = "setUniform" -> IF NoMaterial(s, op) THEN "unknown_material_id" ELSE ""
      [] op.op = "updateBehavior" -> IF NoBehavior(s, op) THEN "unknown_behavior_id" ELSE ""
      [] op.op = "applyMaterial" -> IF NoEntity(s, op) THEN "unknown_entity_id"
                                    ELSE IF NoMaterial(s, op) THEN "unknown_material_id" ELSE ""
      [] op.op = "createBehavior" -> IF NoTarget(s, op) THEN "unknown_entity_id" ELSE ""
      [] op.op = "trigger" ->
            IF KeyFor(s, BEHAVIOR_NS, op.target_id) \notin DOMAIN s.behaviors /\ NoTarget(s, op)
            THEN "unknown_trigger_target" ELSE ""

SameRecords(a, b) ==
    /\ DOMAIN a.entities = DOMAIN b.entities
    /\ DOMAIN a.materials = DOMAIN b.materials
    /\ DOMAIN a.behaviors = DOMAIN b.behaviors

BlankTrigger(op) == op.op = "trigger" /\ (Strip(op.target_id) = "" \/ Strip(op.action) = "")

RefKinds ==
    {"applyMaterial", "setUniform", "createBehavior", "updateEntity", "updateMaterial",
     "updateBehavior", "trigger"}

\* this step dispatched the one op of its batch, which references a missing record
DispatchedMissing ==
    /\ result'.call = "apply"
    /\ result'.single # EmptyDict
    /\ result'.single.op \in RefKinds
    /\ result'.single.op_id \notin scene.applied_op_ids
    /\ ExpectedUnknown(scene, result'.single) # ""

\* C7 as stated: applyMaterial, setUniform, createBehavior, updateEntity,
\* updateMaterial, updateBehavior and trigger, when an id they reference is not
\* a key of its map, raise the matching unknown_* code and leave the keys of
\* entities, materials and behaviors as they were.
C7_MissingRefRaisesUnknown ==
    [][DispatchedMissing =>
         /\ result'.err = ExpectedUnknown(scene, result'.single)
         /\ SameRecords(scene', scene)]_vars

\* C7 amended: the same, except that a trigger whose target_id or action is
\* blank raises invalid_trigger instead of unknown_trigger_target; it too adds
\* no record.
C7_MissingRefRaises ==
    [][DispatchedMissing =>
         /\ result'.err = IF BlankTrigger(result'.single) THEN "invalid_trigger"
                          ELSE ExpectedUnknown(scene, result'.single)
         /\ result'.stage = "op"
         /\ SameRecords(scene', scene)]_vars

\* an update of an entity that is not there was dispatched in a scene that
\* holds an entity, a material and a behavior, and raised
C7_Witness ==
    /\ result.single # EmptyDict
    /\ result.single.op = "updateEntity"
    /\ result.single.entity_id = "ghost"
    /\ result.err = "unknown_entity_id"
    /\ scene.entities # EmptyDict
    /\ scene.materials # EmptyDict

\* C8 as stated: two canonical_id calls on one scene with the same namespace
\* and the same raw id string, whatever apply calls were made in between,
\* return the same canonical id.
C8_SameRawSameId == \A k \in DOMAIN resolved : resolved[k].last = resolved[k].first

\* C8 amended: the same for every raw id that is not blank (empty or only
\* whitespace); a blank raw id stands for no name and gets a freshly minted id
\* at every call.
C8_SameNamedRawSameId ==
    \A k \in DOMAIN resolved :
        Strip(resolved[k].raw_id) # "" => resolved[k].last = resolved[k].first

\* a name was resolved, apply calls followed, and the name was resolved again
C8_Witness ==
    \E k \in DOMAIN resolved :
        /\ Strip(resolved[k].raw_id) # ""
        /\ resolved[k].again
        /\ resolved[k].across_apply
        /\ resolved[k].last = resolved[k].first
        /\ scene.revision > 0

\* the op of the uniform universe with a given op id
UniformOpById(op_id) == CHOOSE op \in UniformOps : op.op_id = op_id

\* the scene after the ops of the given ids, each taken to its end
RECURSIVE Replayed(_, _)
Replayed(s, op_ids) ==
    IF op_ids = << >> THEN s
    ELSE Replayed(apply_single_op(s, UniformOpById(Head(op_ids)), Policy).scene, Tail(op_ids))

\* an op raised: what the earlier ops of the batch did stays, the bookkeeping
\* is as before the call
RaiseKeepsPrefix ==
    (result'.call = "apply" /\ result'.stage = "op") =>
        /\ Content(scene') = Content(Replayed(scene, result'.applied))
        /\ scene'.revision = scene.revision
        /\ scene'.applied_op_ids = scene.applied_op_ids

NearestMs(max_hz) ==
    CHOOSE d \in 0..1000 :
        LET off == IF d * max_hz >= 1000 THEN d * max_hz - 1000 ELSE 1000 - d * max_hz
        IN \/ 2 * off < max_hz
           \/ 2 * off = max_hz /\ d % 2 = 0

\* the last call raised at a setUniform of a material that exists, less than
\* delta(max_hz) ms after the accepted update of the same key
RaisedTooSoon(delta(_)) ==
    /\ result.call = "apply"
    /\ result.stage = "op"
    /\ result.raised_at.op = "setUniform"
    /\ LET material_id == KeyFor(scene, MATERIAL_NS, result.raised_at.material_id)
           key == UniformKey(material_id, Strip(result.raised_at.uniform))
       IN /\ material_id \in DOMAIN scene.materials
          /\ key \in DOMAIN scene.uniform_update_at
          /\ result.raised_at.at_ms - scene.uniform_update_at[key]
                < delta(EffectiveHz(scene.materials[material_id], Strip(result.raised_at.uniform), Policy))

\* C10 as stated: of two setUniform ops on one (material, uniform) key, the
\* first accepted at t1, the second at t2 with (t2 - t1) * max_hz < 1000, the
\* second raises uniform_rate_limited, in one batch or across batches: no two
\* consecutive accepted updates are that close.
C10_ExactQuotient == \A g \in uniform_gaps : (g.t2 - g.t1) * g.max_hz >= 1000

\* C10 amended: the second raises uniform_rate_limited when t2 - t1 <
\* round(1000 / max_hz), the quotient rounded to the nearest integer (33 ms at
\* 30 Hz, so an update 33 ms after the first is accepted), and the material
\* still exists; in one batch or across batches.
C10_RoundedDelta ==
    /\ \A g \in uniform_gaps : g.t2 - g.t1 >= NearestMs(g.max_hz)
    /\ RaisedTooSoon(NearestMs) => result.err = "uniform_rate_limited"

\* an update at 0 ms was accepted and the update of the same key at 32 ms, in
\* the same batch, raised
C10_Witness ==
    /\ RaisedTooSoon(NearestMs)
    /\ result.applied = << "u00" >>
    /\ result.raised_at.op_id = "u32"
    /\ result.err = "uniform_rate_limited"

\* the one op of the batch this step applied is a setUniform that was
\* dispatched and whose material exists
SetUniformDispatched ==
    /\ result'.call = "apply"
    /\ result'.single # EmptyDict
    /\ result'.single.op = "setUniform"
    /\ result'.single.op_id \notin scene.applied_op_ids
    /\ ~NoMaterial(scene, result'.single)

RecipeOf(s, op) == Strip(Get(s.materials[KeyFor(s, MATERIAL_NS, op.material_id)], "recipe_id", ""))

\* the material of op is recipe-backed and the recipe declares the uniform
InSchema(s, op) ==
    /\ RecipeOf(s, op) \in DOMAIN RECIPES
    /\ Strip(op.uniform) \in DOMAIN RECIPES[RecipeOf(s, op)]

RuleOf(s, op) == RECIPES[RecipeOf(s, op)][Strip(op.uniform)]

OutOfRange(s, op) ==
    /\ op.value.numeric
    /\ op.value.milli < RuleOf(s, op).min_value \/ op.value.milli > RuleOf(s, op).max_value

\* when the key of op was last accepted, -1 for never
AcceptedAt(s, op) ==
    Get(s.uniform_update_at, UniformKey(KeyFor(s, MATERIAL_NS, op.material_id), Strip(op.uniform)), -1)

\* an update of the key of op was accepted less than round(1000 / max_hz) ms
\* before op
TooSoon(s, op, max_hz) == AcceptedAt(s, op) >= 0 /\ op.at_ms - AcceptedAt(s, op) < NearestMs(max_hz)

\* the rate as documented: the recipe's when there is one, else the policy's
RecipeFirstHz(s, op, policy_hz) ==
    IF InSchema(s, op) THEN RuleOf(s, op).max_update_hz ELSE policy_hz

\* the lower of the two rates when there is a recipe rule
LowerHz(s, op, policy_hz) ==
    IF InSchema(s, op) /\ RuleOf(s, op).max_update_hz < policy_hz
    THEN RuleOf(s, op).max_update_hz ELSE policy_hz

\* C11 as stated: a setUniform on a recipe-backed material, for a uniform of
\* the recipe's schema, with a value outside [min_value, max_value] raises
\* uniform_out_of_range whatever its at_ms, also when an update of the same
\* key was accepted less than min_delta_ms earlier.
C11_OutOfRangeAlways ==
    [][SetUniformDispatched /\ InSchema(scene, result'.single) /\ OutOfRange(scene, result'.single)
         => result'.err = "uniform_out_of_range"]_vars

\* C11 amended: such a setUniform always raises and writes nothing; the code
\* it raises is uniform_rate_limited when an update of the same key was
\* accepted less than min_delta_ms earlier, uniform_out_of_range otherwise.
C11_OutOfRangeUnlessLimited ==
    [][SetUniformDispatched /\ InSchema(scene, result'.single) /\ OutOfRange(scene, result'.single)
         => /\ result'.err =
                  IF TooSoon(scene, result'.single, LowerHz(scene, result'.single, result'.max_hz))
                  THEN "uniform_rate_limited" ELSE "uniform_out_of_range"
            /\ scene'.materials = scene.materials
            /\ scene'.uniform_update_at = scene.uniform_update_at]_vars

\* density 1.5 sent 50 ms after an accepted update of water.density raised
\* uniform_out_of_range
C11_Witness ==
    /\ result.call = "apply"
    /\ result.single # EmptyDict
    /\ result.single.op_id = "x50"
    /\ result.err = "uniform_out_of_range"
    /\ AcceptedAt(scene, result.single) = 0
    /\ InSchema(scene, result.single) /\ OutOfRange(scene, result.single)

\* C12 as stated: a setUniform is limited by round(1000 / effective_hz) ms,
\* where effective_hz is the recipe's declared max_update_hz whenever the
\* material is recipe-backed and the uniform is in the schema, whatever the
\* policy's max_uniform_update_hz, and the policy's rate otherwise.
C12_RecipeRate ==
    [][SetUniformDispatched
         => (result'.err = "uniform_rate_limited"
               <=> TooSoon(scene, result'.single, RecipeFirstHz(scene, result'.single, result'.max_hz)))]_vars

\* C12 amended: effective_hz is the lower of the recipe's declared
\* max_update_hz and the policy's max_uniform_update_hz when the material is
\* recipe-backed and the uniform is in the schema, the policy's rate otherwise.
C12_LowerRate ==
    [][SetUniformDispatched
         => (result'.err = "uniform_rate_limited"
               <=> TooSoon(scene, result'.single, LowerHz(scene, result'.single, result'.max_hz)))]_vars

\* under a 10 Hz policy an update of water.density (30 Hz in the recipe) 50 ms
\* after the accepted one was rate limited
C12_Witness ==
    /\ result.call = "apply"
    /\ result.single # EmptyDict
    /\ result.single.op_id = "d50"
    /\ result.max_hz = 10
    /\ AcceptedAt(scene, result.single) = 0
    /\ InSchema(scene, result.single)
    /\ result.err = "uniform_rate_limited"

\* how many ops of the batch the last call was given have this name
Submitted(r, name) == Cardinality({i \in 1..Len(r.kinds) : r.kinds[i] = name})

\* the batch has at least 3 destroyEntity and 3 createEntity ops and their
\* combined count exceeds max(8, 0.4 * existing)
ChurnExceeds(r, existing) ==
    /\ Submitted(r, "destroyEntity") >= 3
    /\ Submitted(r, "createEntity") >= 3
    /\ Submitted(r, "destroyEntity") + Submitted(r, "createEntity") > 8
    /\ 10 * (Submitted(r, "destroyEntity") + Submitted(r, "createEntity")) > 4 * existing

\* C13: a batch within the op-count cap raises suspicious_rebuild exactly when
\* explicit_rebuild is false, the scene has at least one entity, and the batch
\* has at least 3 destroyEntity and at least 3 createEntity ops whose combined
\* count exceeds max(8, 0.4 * existing entity count); with explicit_rebuild
\* true the heuristic rejects nothing; the rejection leaves every field of
\* the scene unchanged.
C13_RebuildHeuristic ==
    [][result'.call = "apply" /\ Len(result'.kinds) <= MaxRebuildOps
         => /\ result'.err = "suspicious_rebuild"
                  <=> /\ ~result'.explicit_rebuild
                      /\ Cardinality(DOMAIN scene.entities) >= 1
                      /\ ChurnExceeds(result', Cardinality(DOMAIN scene.entities))
            /\ result'.err = "suspicious_rebuild" => scene' = scene]_vars

\* on a scene of 22 entities a batch of 6 destroys and 3 creates was rejected
C13_Witness ==
    /\ result.call = "apply"
    /\ result.err = "suspicious_rebuild"
    /\ ~result.explicit_rebuild
    /\ Cardinality(DOMAIN scene.entities) = 22
    /\ Submitted(result, "destroyEntity") = 6
    /\ Submitted(result, "createEntity") = 3

\* C14: a batch of more than max_patch_ops_per_turn ops raises
\* patch_budget_exceeded and leaves entities, materials, behaviors, bindings,
\* id_aliases, counters, uniform_update_at, trigger_log, applied_op_ids and
\* revision as they were; a batch of exactly max_patch_ops_per_turn ops is not
\* rejected by this check (stage "budget" is the raise with scope ops_per_turn;
\* the caps raise the same code after the loop).
C14_BudgetBeforeMutation ==
    [][result'.call = "apply"
         => /\ Len(result'.submitted) > MaxPatchOps
                  => result'.err = "patch_budget_exceeded" /\ scene' = scene
            /\ Len(result'.submitted) <= MaxPatchOps => result'.stage # "budget"]_vars

\* a batch of one op too many, none of them applied before, was refused on a
\* scene that holds an entity
C14_Witness ==
    /\ result.call = "apply"
    /\ Len(result.submitted) = MaxPatchOps + 1
    /\ result.err = "patch_budget_exceeded"
    /\ result.submitted[1] \notin scene.applied_op_ids
    /\ scene.entities # EmptyDict

\* this step dispatched the one trigger of its batch, whose target names a
\* behavior of the scene
TriggerDispatched ==
    /\ result'.call = "apply"
    /\ result'.single # EmptyDict
    /\ result'.single.op = "trigger"
    /\ result'.single.op_id \notin scene.applied_op_ids
    /\ Strip(result'.single.target_id) # "" /\ Strip(result'.single.action) # ""
    /\ KeyFor(scene, BEHAVIOR_NS, result'.single.target_id) \in DOMAIN scene.behaviors

\* the transition list of the state behavior b is in
ListOf(b) == Get(Get(Get(b.definition, "states", EmptyDict), b.state, EmptyDict), "transitions", << >>)

\* the first entry of the list for the action, EmptyDict when there is none
FirstEntry(list, action) ==
    IF \E i \in 1..Len(list) : list[i].event = action
    THEN list[CHOOSE i \in 1..Len(list) :
                  list[i].event = action /\ \A j \in 1..(i - 1) : list[j].event # action]
    ELSE EmptyDict

\* the trigger is recorded on the behavior and at the end of the log
Recorded(after, key, op) ==
    /\ after.behaviors[key].last_trigger = Strip(op.action)
    /\ after.trigger_log # << >>
    /\ after.trigger_log[Len(after.trigger_log)] =
          [target_id |-> Strip(op.target_id), action |-> Strip(op.action), at_ms |-> op.at_ms]

\* the three-op turn was applied op by op
BloopTurnApplied ==
    /\ result'.call = "apply"
    /\ result'.kinds = << "createEntity", "createBehavior", "trigger" >>
    /\ Len(result'.applied) = 3

BloopTurnEndsInBloop ==
    BloopTurnApplied
      => /\ result'.err = ""
         /\ scene'.behaviors[KeyFor(scene', BEHAVIOR_NS, "bloop")].state = "bloop"

\* C15 as stated: a trigger whose target resolves to a behavior looks only at
\* the transition list of the behavior's current state, takes the first entry
\* whose event equals the action and sets the state to that entry's "to";
\* without such an entry the state is unchanged; in both cases no error is
\* raised and the trigger is recorded in last_trigger and trigger_log.
\* createEntity(fish), createBehavior(bloop on fish), trigger(bloop, bloop) in
\* one batch ends with state "bloop".
C15_FirstEntryMoves ==
    [][/\ TriggerDispatched
          => LET key == KeyFor(scene, BEHAVIOR_NS, result'.single.target_id)
                 entry == FirstEntry(ListOf(scene.behaviors[key]), Strip(result'.single.action))
             IN /\ result'.err = ""
                /\ Recorded(scene', key, result'.single)
                /\ scene'.behaviors[key].state =
                      IF entry # EmptyDict THEN entry.to ELSE scene.behaviors[key].state
       /\ BloopTurnEndsInBloop]_vars

\* C15 amended: as stated, except that an entry whose "to" is blank moves
\* nothing: the state changes only when the first matching entry names a
\* state.
C15_FirstNamedEntryMoves ==
    [][/\ TriggerDispatched
          => LET key == KeyFor(scene, BEHAVIOR_NS, result'.single.target_id)
                 entry == FirstEntry(ListOf(scene.behaviors[key]), Strip(result'.single.action))
             IN /\ result'.err = ""
                /\ Recorded(scene', key, result'.single)
                /\ scene'.behaviors[key].state =
                      IF entry # EmptyDict /\ Strip(entry.to) # ""
                      THEN Strip(entry.to) ELSE scene.behaviors[key].state
       /\ BloopTurnEndsInBloop]_vars

\* a trigger "bloop" moved the behavior from idle, where two entries have that
\* event, to the state of the first one
C15_Witness ==
    /\ result.call = "apply"
    /\ result.single # EmptyDict
    /\ result.single.op = "trigger"
    /\ result.single.action = "bloop"
    /\ result.err = ""
    /\ \E key \in DOMAIN scene.behaviors :
          /\ scene.behaviors[key].definition = TideMachine
          /\ scene.behaviors[key].state = "bloop"
          /\ scene.behaviors[key].last_trigger = "bloop"
    /\ Len(scene.trigger_log) = 1

\* the fields of a SceneState
SceneFields(doc) == [f \in (DOMAIN new_scene_state) \cup {"scene_id"} |-> doc[f]]

\* this step is restore(scene_id, name) after snapshot(scene_id, name) with
\* the same arguments, and only apply calls were made in between
RestoresSnapshot ==
    /\ result'.call = "restore"
    /\ << result'.scene_id, result'.name >> \in DOMAIN taken
    /\ taken[<< result'.scene_id, result'.name >>].only_applies

\* C16: for any sequence of apply calls between snapshot(scene_id, name) and
\* restore(scene_id, name), the scene the store serves after the restore equals
\* the scene at snapshot time in every SceneState field (so summary() is the
\* same and nothing applied after the snapshot survives).
C16_RestoreBringsSnapshotBack ==
    [][RestoresSnapshot
         => SceneFields(Served(store', result'.scene_id))
              = SceneFields(taken[<< result'.scene_id, result'.name >>].doc)]_vars

\* C17 as stated: over any sequence of apply, snapshot and restore calls on one
\* scene id, the revision of the scene never decreases.
C17_RevisionNeverDecreases ==
    [][\A scene_id \in SceneIds :
          Served(store', scene_id).revision >= Served(store, scene_id).revision]_vars

\* C17 amended: apply and snapshot never decrease the revision; a restore can
\* lower it, and then to exactly the revision stored in the snapshot it loads.
C17_OnlyRestoreLowers ==
    [][\A scene_id \in SceneIds :
          Served(store', scene_id).revision < Served(store, scene_id).revision
            => /\ result'.call = "restore"
               /\ result'.err = ""
               /\ Served(store', scene_id).revision
                    = store.snapshots[<< result'.scene_id, result'.name >>].revision]_vars

\* a restore took the scene from revision 2 back to the snapshot's revision 1
C17_Witness ==
    /\ result.call = "restore"
    /\ result.err = ""
    /\ result.revision_before = 2
    /\ Served(store, result.scene_id).revision = 1

\* handler h took its first step: it read the revision and checked the request
Began(h) == handlers[h].pc = "idle" /\ handlers'[h].pc # "idle"

\* C18: a /v2/orchestrate request whose base_revision differs from the
\* scene's current revision is rejected with 409 revision_conflict before
\* apply is invoked and leaves the scene unchanged; a request without
\* base_revision is never rejected as a conflict.
C18_ConflictBeforeApply ==
    [][\A h \in Handlers :
          /\ Began(h) /\ handlers'[h].request_base # << >>
                      /\ handlers'[h].request_base[1] # Served(store, GatewayScene).revision
                => /\ handlers'[h].response.status = 409
                   /\ handlers'[h].response.error = "revision_conflict"
                   /\ handlers'[h].pc = "done"
                   /\ Served(store', GatewayScene) = Served(store, GatewayScene)
          /\ handlers'[h].response.status = 409 /\ handlers[h].response.status # 409
                => Began(h) /\ handlers'[h].request_base # << >>]_vars

\* a request with base_revision 0 was refused on a scene at revision 1
C18_Witness ==
    \E h \in Handlers :
        /\ handlers[h].response.status = 409
        /\ handlers[h].request_base = << 0 >>
        /\ Served(store, GatewayScene).revision = 1

C21_RestartKeepsAutosave ==
    [][result'.call = "restart"
         => \A scene_id \in SceneIds :
               IF scene_id \in DOMAIN store.autosave
               THEN SceneFields(Served(store', scene_id)) = SceneFields(store.autosave[scene_id])
               ELSE StoreKey(scene_id) \notin DOMAIN store.autosave
                      => SceneFields(Served(store', scene_id))
                           = SceneFields(Put(new_scene_state, "scene_id", StoreKey(scene_id)))]_vars

\* C22 as stated: apply, snapshot and restore on scene id A leave the state of
\* every other scene id B unchanged.
C22_OtherIdsUntouched ==
    [][\A B \in TwoSceneIds :
          B # result'.scene_id => Served(store', B) = Served(store, B)]_vars

\* C22 amended: apply, snapshot and restore on scene id A leave unchanged the
\* state of every scene id B that names another scene, ids being compared as
\* the store compares them (stripped, the empty id standing for "default").
C22_OtherScenesUntouched ==
    [][\A B \in TwoSceneIds :
          StoreKey(B) # StoreKey(result'.scene_id) => Served(store', B) = Served(store, B)]_vars

\* an op was applied to scene "t" while scene "s" held an entity of its own
C22_Witness ==
    /\ result.call = "apply"
    /\ result.err = ""
    /\ result.scene_id = "t"
    /\ Served(store, "t").revision = 1
    /\ Served(store, "s").revision = 2

\* the codes the engine's error contract lists
ListedCodes ==
    { "patch_budget_exceeded", "suspicious_rebuild", "unknown_entity_kind", "unknown_entity_id",
      "unknown_material_id", "unknown_recipe_id", "unknown_behavior_id", "unknown_trigger_target",
      "invalid_trigger", "uniform_name_required", "uniform_not_numeric", "uniform_out_of_range",
      "uniform_rate_limited", "unsupported_op" }

\* C23: every failure of apply carries one of the 14 listed codes, for every
\* op kind and payload, a setUniform naming a uniform that is not in the
\* material's recipe schema included.
C23_ListedCodesOnly ==
    result.call = "apply" /\ result.err # "" => result.err \in ListedCodes

\* this step is start() in a new process
Starts == manager.worker = "down" /\ manager'.worker # "down"

\* C24: after start() following a crash no queue item is left in status
\* processing and no run in status running: each such item is queued again
\* with turn_id and error cleared, each such run is idle, no item is lost or
\* duplicated, and every other item and run is as it was.
C24_RecoversInflight ==
    [][Starts =>
         /\ Len(db'.queue) = Len(db.queue)
         /\ \A i \in 1..Len(db.queue) :
               db'.queue[i] = IF db.queue[i].status = "processing"
                              THEN [db.queue[i] EXCEPT !.status = "queued", !.turn_id = Null, !.error = ""]
                              ELSE db.queue[i]
         /\ DOMAIN db'.runs = DOMAIN db.runs
         /\ \A r \in DOMAIN db.runs :
               IF db.runs[r].status = "running"
               THEN db'.runs[r].status = "idle"
               ELSE db'.runs[r] = db.runs[r]
         /\ Processing(db') = {}
         /\ \A r \in DOMAIN db'.runs : db'.runs[r].status # "running"]_vars

\* start() has just put back the item of a run that was paused while its turn
\* was in flight, next to an item that was already done
C24_Witness ==
    /\ Up /\ manager.starting
    /\ \E i, j \in 1..Len(db.queue) :
          /\ db.queue[i].status = "queued"
          /\ db.queue[i].run_id \in manager.recovered
          /\ db.runs[db.queue[i].run_id].status = "paused"
          /\ db.queue[j].status = "done"

\* item i is in the queue of the auto run r and has not been taken yet
Waiting(i, r) ==
    /\ i <= Len(db.queue)
    /\ db.queue[i].run_id = r
    /\ db.queue[i].status = "queued"
    /\ db.runs[r].auto_run

ItemFinished(i) == i <= Len(db.queue) /\ db.queue[i].status \in {"done", "error"}

Halted(r) == r \in DOMAIN db.runs /\ db.runs[r].status \in {"paused", "stopped"}

InError(r) == r \in DOMAIN db.runs /\ db.runs[r].status = "error"

OrderOp(op_id) == CHOOSE op \in OrderOps : op.op_id = op_id

\* op i of a batch goes before op j: earlier (negative times count as 0), or
\* at the same time under a smaller op id, or the same in both and submitted first
GoesBefore(ops, i, j) ==
    LET ti == IF ops[i].at_ms < 0 THEN 0 ELSE ops[i].at_ms
        tj == IF ops[j].at_ms < 0 THEN 0 ELSE ops[j].at_ms
    IN \/ ti < tj
       \/ ti = tj /\ StrLess(ops[i].op_id, ops[j].op_id)
       \/ ti = tj /\ ops[i].op_id = ops[j].op_id /\ i < j

\* the batch arranged so that each op goes before the next
Arranged(ops) ==
    LET p == CHOOSE f \in [1..Len(ops) -> 1..Len(ops)] :
                 \A a, b \in 1..Len(ops) : a < b => GoesBefore(ops, f[a], f[b])
    IN [k \in 1..Len(ops) |-> ops[p[k]]]

\* the ops applied one by one, those whose id was seen left out (and, when
\* skip_blank, those with a blank id too), up to the first that raises
RECURSIVE OneByOne(_, _, _, _, _)
OneByOne(s, ops, i, seen, skip_blank) ==
    IF i > Len(ops) THEN [scene |-> s, err |-> ""]
    ELSE IF ops[i].op_id \in seen \/ (skip_blank /\ Strip(ops[i].op_id) = "")
         THEN OneByOne(s, ops, i + 1, seen, skip_blank)
    ELSE IF apply_single_op(s, ops[i], Policy).err # ""
         THEN [scene |-> s, err |-> apply_single_op(s, ops[i], Policy).err]
    ELSE OneByOne(apply_single_op(s, ops[i], Policy).scene, ops, i + 1,
                  seen \cup {ops[i].op_id}, skip_blank)

\* the records and tables of a scene, its bookkeeping of batches aside
Graph(s) == [f \in {"entities", "materials", "behaviors", "bindings", "id_aliases", "counters",
                     "uniform_update_at", "trigger_log"} |-> s[f]]

\* this apply call did what the reference run r of its batch does
TookEffectAs(r) ==
    /\ result'.err = "" => r.err = "" /\ Graph(scene') = Graph(r.scene)
    /\ result'.stage = "op" => r.err = result'.err

OrderApplied == result'.call = "apply" /\ calls' = calls + 1 /\ result'.stage # "budget"

Filled(op, idx) ==
    [ f \in DOMAIN op \cup {"at_ms", "op_id"} |->
        IF f = "at_ms" THEN (IF "at_ms" \in DOMAIN op /\ op.at_ms > 0 THEN op.at_ms ELSE 0)
        ELSE IF f = "op_id" /\ "op_id" \notin DOMAIN op THEN "op-" \o ZeroPad(idx, 5)
        ELSE op[f] ]

\* ys holds the ops of xs, each once and filled, ascending by (at_ms, op_id,
\* position in xs)
IsNormalizationOf(xs, ys) ==
    /\ Len(ys) = Len(xs)
    /\ \E p \in [1..Len(xs) -> 1..Len(xs)] :
          /\ \A a, b \in 1..Len(xs) : a # b => p[a] # p[b]
          /\ \A k \in 1..Len(xs) : ys[k] = Filled(xs[p[k]], p[k] - 1)
          /\ \A a, b \in 1..Len(xs) :
                a < b =>
                  \/ ys[a].at_ms < ys[b].at_ms
                  \/ ys[a].at_ms = ys[b].at_ms /\ StrLess(ys[a].op_id, ys[b].op_id)
                  \/ ys[a].at_ms = ys[b].at_ms /\ ys[a].op_id = ys[b].op_id /\ p[a] < p[b]

Triggered ==
    /\ result'.call = "apply"
    /\ result'.single # EmptyDict
    /\ result'.single.op = "trigger"
    /\ result'.stage \in {"done", "op"}

\* the record d with its last_trigger set
Stamped(d, action) == [f \in DOMAIN d \cup {"last_trigger"} |-> IF f = "last_trigger" THEN action ELSE d[f]]

\* record b of the map after is record b of the map before with its
\* last_trigger set (and, when moves, perhaps its state changed), and every
\* other record is as it was
OnlyStamped(before, after, b, action, moves) ==
    /\ DOMAIN after = DOMAIN before
    /\ \A k \in DOMAIN before \ {b} : after[k] = before[k]
    /\ after[b].last_trigger = action
    /\ \/ after[b] = Stamped(before[b], action)
       \/ moves /\ [after[b] EXCEPT !.state = before[b].state] = Stamped(before[b], action)

\* what a trigger with target t and action a (neither empty) did, where t
\* stands for the behavior id b and the entity id e
TargetHit(t, a, at_ms, b, e) ==
    LET entry == [target_id |-> t, action |-> a, at_ms |-> at_ms]
    IN IF b \in DOMAIN scene.behaviors
       THEN /\ result'.err = ""
            /\ OnlyStamped(scene.behaviors, scene'.behaviors, b, a, TRUE)
            /\ scene'.entities = scene.entities
            /\ scene'.trigger_log = Append(scene.trigger_log, entry)
       ELSE IF e \in DOMAIN scene.entities
       THEN /\ result'.err = ""
            /\ OnlyStamped(scene.entities, scene'.entities, e, a, FALSE)
            /\ scene'.behaviors = scene.behaviors
            /\ scene'.trigger_log = Append(scene.trigger_log, entry)
       ELSE /\ result'.err = "unknown_trigger_target"
            /\ scene'.trigger_log = scene.trigger_log
            /\ scene'.entities = scene.entities
            /\ scene'.behaviors = scene.behaviors

\* C28: a trigger with empty target_id or action raises invalid_trigger;
\* otherwise, if its target names an existing behavior - also when it names an
\* existing entity too - the trigger acts on the behavior only and the
\* entities are as they were; if it names no behavior but an existing entity,
\* only that entity's last_trigger is set; if it names neither, the op raises
\* unknown_trigger_target and trigger_log is as it was.
C28_TriggerTarget ==
    [][Triggered =>
         LET op == result'.single
         IN IF op.target_id = "" \/ op.action = ""
            THEN result'.err = "invalid_trigger" /\ result'.stage = "op"
            ELSE TargetHit(op.target_id, op.action, op.at_ms,
                           KeyFor(scene, BEHAVIOR_NS, op.target_id),
                           KeyFor(scene, ENTITY_NS, op.target_id))]_vars

\* the entity and the behavior named "fish" are both there and a trigger at
\* "fish" moved the behavior
C28_Witness ==
    /\ result.call = "apply"
    /\ result.single # EmptyDict
    /\ result.single.op = "trigger"
    /\ result.single.target_id = "fish"
    /\ result.err = ""
    /\ KeyFor(scene, ENTITY_NS, "fish") \in DOMAIN scene.entities
    /\ KeyFor(scene, BEHAVIOR_NS, "fish") \in DOMAIN scene.behaviors
    /\ scene.behaviors[KeyFor(scene, BEHAVIOR_NS, "fish")].last_trigger = "bloop"
    /\ "last_trigger" \notin DOMAIN scene.entities[KeyFor(scene, ENTITY_NS, "fish")]


\* this step dispatched a destroyEntity, the one op of its batch
Destroyed ==
    /\ result'.call = "apply"
    /\ result'.single # EmptyDict
    /\ result'.single.op = "destroyEntity"
    /\ result'.stage \in {"done", "op"}

\* the behaviors whose target is no entity of the scene
Orphans(s) == {b \in DOMAIN s.behaviors : s.behaviors[b].target_id \notin DOMAIN s.entities}

\* C29: destroyEntity is never an error; it removes the entity and its entry
\* in bindings.entity_to_material and nothing else: materials are unchanged,
\* every behavior, also one whose target_id is the destroyed entity, stays in
\* the behaviors map as it was, and a trigger at such a behavior still acts on
\* it.
C29_DestroyEntityOnly ==
    [][/\ Destroyed =>
            LET e == KeyFor(scene, ENTITY_NS, result'.single.entity_id)
            IN /\ result'.err = ""
               /\ scene'.entities = [k \in DOMAIN scene.entities \ {e} |-> scene.entities[k]]
               /\ scene'.bindings = [k \in DOMAIN scene.bindings \ {e} |-> scene.bindings[k]]
               /\ scene'.materials = scene.materials
               /\ scene'.behaviors = scene.behaviors
               /\ scene'.trigger_log = scene.trigger_log
               /\ scene'.uniform_update_at = scene.uniform_update_at
               /\ e \in DOMAIN scene.entities =>
                     scene'.id_aliases = scene.id_aliases /\ scene'.counters = scene.counters
       /\ Triggered /\ KeyFor(scene, BEHAVIOR_NS, result'.single.target_id) \in Orphans(scene) =>
            /\ result'.err = ""
            /\ scene'.behaviors[KeyFor(scene, BEHAVIOR_NS, result'.single.target_id)].last_trigger
                  = result'.single.action]_vars

\* "fish" was destroyed while the material was bound to it and the behavior
\* "bloop" was on it: the binding is gone, the material is there, and the
\* behavior is there with its state
C29_Witness ==
    /\ result.call = "apply"
    /\ result.single # EmptyDict
    /\ result.single.op = "destroyEntity"
    /\ result.single.entity_id = "fish"
    /\ result.err = ""
    /\ scene.entities = EmptyDict
    /\ scene.bindings = EmptyDict
    /\ DOMAIN scene.materials # {}
    /\ Orphans(scene) # {}
    /\ \E b \in Orphans(scene) : scene.behaviors[b].state = "idle"
    /\ "entity:fish" \in DOMAIN scene.id_aliases


\* every uniform of material row m that its recipe declares is within the
\* declared range
WithinSchema(m) ==
    LET recipe_id == Strip(Get(m, "recipe_id", ""))
    IN recipe_id # "" /\ HasRecipe(recipe_id) =>
         \A u \in DOMAIN Get(m, "uniforms", EmptyDict) \cap DOMAIN RECIPES[recipe_id] :
            /\ m.uniforms[u] >= RECIPES[recipe_id][u].min_value
            /\ m.uniforms[u] <= RECIPES[recipe_id][u].max_value

\* C30 as stated: in every state reachable by apply calls, for every material
\* with a non-empty recipe_id, every entry of its uniforms map whose name is
\* in the recipe's schema holds a value within that rule's [min, max],
\* whichever op wrote it.
C30_UniformsInRange == \A id \in DOMAIN scene.materials : WithinSchema(scene.materials[id])


\* the op of the duplicate universe with a given op id and op name
DupOp(op_id, name) == CHOOSE op \in DupOps : op.op_id = op_id /\ op.op = name

\* the ops of a list whose op id no op before them carries
RECURSIVE Firsts(_, _, _)
Firsts(ops, i, ids) ==
    IF i > Len(ops) THEN << >>
    ELSE IF ops[i].op_id \in ids THEN Firsts(ops, i + 1, ids)
    ELSE << ops[i] >> \o Firsts(ops, i + 1, ids \cup {ops[i].op_id})

\* the op ids that more than one op of the list carries
Shared(ops) == {ops[i].op_id : i \in {k \in 1..Len(ops) : \E j \in 1..Len(ops) : j # k /\ ops[j].op_id = ops[k].op_id}}

\* what the call of this step did with the batch ops
DuplicatesSkipped(ops) ==
    /\ TookEffectAs(OneByOne(scene, Firsts(Arranged(ops), 1, {}), 1, scene.applied_op_ids, TRUE))
    /\ \A id \in Shared(ops) :
          /\ Cardinality({k \in 1..Len(result'.applied) : result'.applied[k] = id}) <= 1
          /\ result'.err = "" => DuplicateWarning(id) \in Range(result'.warnings)
    /\ result'.stage = "op" =>
          /\ result'.raised_at.op_id \notin scene.applied_op_ids
          /\ result'.raised_at \in Range(Firsts(Arranged(ops), 1, {}))
    /\ (\A k \in 1..Len(ops) : ops[k].op_id \in scene.applied_op_ids) =>
          result'.err = "" /\ Graph(scene') = Graph(scene)

RECURSIVE EntriesOf(_, _)
EntriesOf(op_ids, i) ==
    IF i > Len(op_ids) THEN << >>
    ELSE IF op_ids[i] \in DOMAIN LogNumber
         THEN << [target_id |-> "fish", action |-> "bloop", at_ms |-> LogNumber[op_ids[i]]] >>
                \o EntriesOf(op_ids, i + 1)
    ELSE EntriesOf(op_ids, i + 1)

\* after is the list all when that has at most cap entries, else its last cap
\* entries in the same order
EndOf(all, after, cap) ==
    /\ Len(after) = (IF Len(all) > cap THEN cap ELSE Len(all))
    /\ \A k \in 1..Len(after) : after[k] = all[Len(all) - Len(after) + k]

\* C32: trigger_log and the warnings history hold at most 200 entries each;
\* entries are appended in arrival order and, past 200, the oldest are
\* dropped, so each list is the end of everything that was ever appended.
C32_BoundedHistories ==
    [][(result'.call = "apply" /\ calls' = calls + 1) =>
         /\ Len(scene'.trigger_log) <= 200
         /\ Len(scene'.warnings) <= 200
         /\ EndOf(scene.trigger_log \o EntriesOf(result'.applied, 1), scene'.trigger_log, 200)
         /\ EndOf(scene.warnings \o (IF result'.err = "" THEN result'.warnings ELSE << >>),
                  scene'.warnings, 200)]_vars

\* trigger_log and the warnings history were both filled past 200: each holds
\* the last 200 of 225, in the order of arrival
C32_Witness ==
    /\ Len(scene.trigger_log) = 200
    /\ Len(scene.warnings) = 200
    /\ scene.trigger_log[1].at_ms = 26
    /\ scene.trigger_log[200].at_ms = 225
    /\ scene.warnings[1] = DuplicateWarning(LogId(26))
    /\ scene.warnings[200] = DuplicateWarning(LogId(225))


\* every binding of scene s is of an entity of s to a material of s
Bound(s) ==
    /\ DOMAIN s.bindings \subseteq DOMAIN s.entities
    /\ \A e \in DOMAIN s.bindings : s.bindings[e] \in DOMAIN s.materials

\* C33: in every state reached by apply calls, returned or raised, and by
\* snapshot and restore, every key of bindings.entity_to_material is a key of
\* entities and every value is a key of materials - in the scenes the store
\* serves or served and in the files it wrote.
C33_BindingsResolve ==
    /\ \A h \in 1..Len(store.heap) : Bound(store.heap[h])
    /\ \A k \in DOMAIN store.snapshots : Bound(store.snapshots[k])
    /\ \A k \in DOMAIN store.autosave : Bound(store.autosave[k])

\* the bound entity was destroyed after a snapshot and the snapshot was
\* restored: the scene that was left has neither entity nor binding, the
\* scene served has both
C33_Witness ==
    /\ result.call = "restore"
    /\ result.err = ""
    /\ DOMAIN Served(store, GatewayScene).bindings # {}
    /\ \E h \in 1..Len(store.heap) :
          /\ DOMAIN store.heap[h].entities = {}
          /\ DOMAIN store.heap[h].materials # {}
          /\ DOMAIN store.heap[h].bindings = {}


\* the op id of an op without one at position i (from 1) of its batch
SyntheticId(i) == "op-" \o ZeroPad(i - 1, 5)

\* the positions of the submitted batch whose op carried no op_id
Anonymous(submitted) == {i \in 1..Len(submitted) : submitted[i] # "x"}

\* C34: the synthetic op_id of an op lacking one depends only on the op's
\* index in its batch, so an op without op_id at index i of a later batch is
\* skipped as a duplicate (not applied, and op_duplicate_ignored when the call
\* returns) whenever an op without op_id at index i was committed by an
\* earlier batch on the same scene, whatever the two ops are.
C34_AnonymousIndexRepeats ==
    [][(result'.call = "apply" /\ calls' = calls + 1 /\ result'.stage \in {"op", "caps", "done"}) =>
         \A i \in Anonymous(result'.submitted) :
            /\ result'.submitted[i] = SyntheticId(i)
            /\ SyntheticId(i) \in scene.applied_op_ids =>
                  /\ SyntheticId(i) \notin Range(result'.applied)
                  /\ Get(effect_count', SyntheticId(i), 0) = Get(effect_count, SyntheticId(i), 0)
                  /\ result'.err = "" => DuplicateWarning(SyntheticId(i)) \in Range(result'.warnings)
            /\ (result'.err = "" /\ SyntheticId(i) \notin scene.applied_op_ids) =>
                  SyntheticId(i) \in scene'.applied_op_ids]_vars

\* a turn with one anonymous op created "fish"; the next turn's one anonymous
\* op, the creation of "bowl", was skipped
C34_Witness ==
    /\ result.call = "apply"
    /\ calls = 2
    /\ result.kinds = << "createEntity" >>
    /\ result.submitted = << "op-00000" >>
    /\ result.single.entity_id = "bowl"
    /\ result.err = ""
    /\ result.applied = << >>
    /\ result.warnings = << "op_duplicate_ignored:op-00000" >>
    /\ Cardinality(DOMAIN scene.entities) = 1

\* the op of KeyOps under this op id
KeyOp(op_id) == CHOOSE op \in KeyOps : op.op_id = op_id

\* the (material, uniform) key a setUniform is about
KeyOf(s, op) == UniformKey(KeyFor(s, MATERIAL_NS, op.material_id), Strip(op.uniform))

\* the ops this step applied, before it returned or raised, hold a setUniform
\* of the key at this time
AcceptedNow(key, at_ms) ==
    \E i \in 1..Len(result'.applied) :
       LET op == KeyOp(result'.applied[i])
       IN /\ op.op = "setUniform"
          /\ UniformKey("mat:" \o op.material_id \o "#001", op.uniform) = key
          /\ (IF op.at_ms < 0 THEN 0 ELSE op.at_ms) = at_ms

\* the uniforms of the material of op, without the one op is about
OtherUniforms(s, op) ==
    LET uniforms == Get(s.materials[KeyFor(s, MATERIAL_NS, op.material_id)], "uniforms", EmptyDict)
    IN [u \in DOMAIN uniforms \ {Strip(op.uniform)} |-> uniforms[u]]

\* C35: the at_ms of the last accepted setUniform of a (material, uniform) key
\* stays in the scene from batch to batch, whatever the batches do (also when
\* the material is destroyed). A setUniform that reaches its material in a
\* later turn is rejected with uniform_rate_limited exactly when its own at_ms
\* is lower than, or less than min_delta_ms above, the stored time of its own
\* key; times stored for other keys play no part. A rejected setUniform leaves
\* values and stored times as they were; an accepted one changes the value
\* and the stored time of its own key only.
C35_LastAcceptedPersists ==
    [][/\ \A key \in DOMAIN scene.uniform_update_at :
             /\ key \in DOMAIN scene'.uniform_update_at
             /\ scene'.uniform_update_at[key] # scene.uniform_update_at[key]
                   => AcceptedNow(key, scene'.uniform_update_at[key])
       /\ SetUniformDispatched =>
             /\ result'.err = "uniform_rate_limited"
                   <=> TooSoon(scene, result'.single, LowerHz(scene, result'.single, result'.max_hz))
             /\ result'.err # "" =>
                   /\ scene'.materials = scene.materials
                   /\ scene'.uniform_update_at = scene.uniform_update_at
             /\ result'.err = "" =>
                   /\ scene'.uniform_update_at =
                         Put(scene.uniform_update_at, KeyOf(scene, result'.single),
                             IF result'.single.at_ms < 0 THEN 0 ELSE result'.single.at_ms)
                   /\ OtherUniforms(scene', result'.single) = OtherUniforms(scene, result'.single)]_vars

\* density was accepted at 50 ms in an earlier turn; after a turn that updated
\* blue_shift at 0 ms, the update of density at 0 ms was rejected, the value
\* and the stored time of density are those of the first turn
C35_Witness ==
    /\ calls = 3
    /\ result.call = "apply"
    /\ result.single # EmptyDict
    /\ result.single.op_id = "d00"
    /\ result.err = "uniform_rate_limited"
    /\ AcceptedAt(scene, result.single) = 50
    /\ scene.materials["mat:water#001"].uniforms["density"] = 600
    /\ Get(scene.uniform_update_at, UniformKey("mat:water#001", "blue_shift"), -1) = 0

\* a count of the scene is above its cap
AboveCap(s) ==
    \/ Cardinality((DOMAIN s.entities) \ EntitiesOfKind(s, THREE_D_KINDS)) > MaxEntities2D
    \/ Cardinality(EntitiesOfKind(s, THREE_D_KINDS)) > MaxEntities3D
    \/ Cardinality(DOMAIN s.materials) > MaxMaterials
    \/ Cardinality(DOMAIN s.behaviors) > MaxBehaviors

\* the op of CapOps under this op id
CapOp(op_id) == CHOOSE op \in CapOps : op.op_id = op_id

\* an op the step applied after the i-th destroyed what the i-th created
DestroyedAfter(applied, i) ==
    \E j \in (i + 1)..Len(applied) :
       \/ CapOp(applied[i]).op = "createEntity" /\ CapOp(applied[j]).op = "destroyEntity"
             /\ CapOp(applied[j]).entity_id = CapOp(applied[i]).entity_id
       \/ CapOp(applied[i]).op = "createMaterial" /\ CapOp(applied[j]).op = "destroyMaterial"
             /\ CapOp(applied[j]).material_id = CapOp(applied[i]).material_id

\* the caps rejected the batch of this step: the records its ops created (and
\* did not destroy again) are in the scene and a count is above its cap
CapRejectionKeeps ==
    (result'.call = "apply" /\ result'.stage = "caps") =>
        /\ result'.err = "patch_budget_exceeded"
        /\ AboveCap(scene')
        /\ \A i \in 1..Len(result'.applied) :
              LET op == CapOp(result'.applied[i])
              IN \/ DestroyedAfter(result'.applied, i)
                 \/ /\ op.op = "createEntity" => KeyFor(scene', ENTITY_NS, op.entity_id) \in DOMAIN scene'.entities
                    /\ op.op = "createMaterial" => KeyFor(scene', MATERIAL_NS, op.material_id) \in DOMAIN scene'.materials

\* C36 as stated: a batch rejected by the caps leaves the records it created
\* in the scene, above the cap, and every later batch, the empty one too,
\* whose end state is still above a cap is rejected with
\* patch_budget_exceeded.
C36_RejectedWithBudgetCode ==
    [][/\ CapRejectionKeeps
       /\ (result'.call = "apply" /\ AboveCap(scene) /\ AboveCap(scene'))
             => result'.err = "patch_budget_exceeded"]_vars

\* C36 amended: a batch rejected by the caps leaves the records it created in
\* the scene, above the cap, and every later batch, the empty one too, whose
\* end state is still above a cap is rejected: with suspicious_rebuild or the
\* error of the op that raised when the rebuild check or one of its ops
\* raises, with patch_budget_exceeded otherwise. A batch within the op budget
\* that passes the rebuild check, none of whose ops raises and whose end state
\* is within all caps again, is accepted.
C36_RejectedUntilWithinCaps ==
    [][/\ CapRejectionKeeps
       /\ (result'.call = "apply" /\ AboveCap(scene)) =>
             /\ AboveCap(scene') =>
                   /\ result'.err # ""
                   /\ result'.stage \notin {"rebuild", "op"} => result'.err = "patch_budget_exceeded"
             /\ (~AboveCap(scene') /\ result'.stage \notin {"budget", "rebuild", "op"}) => result'.err = ""]_vars

\* after a batch of two creates that the caps rejected, the empty batch was
\* rejected by the caps with both entities still in the scene
C36_Witness ==
    /\ calls = 2
    /\ result.call = "apply"
    /\ result.submitted = << >>
    /\ result.stage = "caps"
    /\ result.err = "patch_budget_exceeded"
    /\ {scene.entities[e].kind : e \in DOMAIN scene.entities} = {"fish", "bowl"}
    /\ scene.revision = 0

\* the one op of the batch this step applied is a create of this kind whose
\* raw id is a name no earlier op used, and it was carried out
CreatedUnderNewName(op_name, namespace, field) ==
    /\ result'.call = "apply"
    /\ result'.stage \in {"caps", "done"}
    /\ result'.single # EmptyDict
    /\ result'.single.op = op_name
    /\ result'.applied = << result'.single.op_id >>
    /\ ~StartsWith(Strip(result'.single[field]), prefix(namespace) \o ":")
    /\ AliasKey(namespace, Strip(result'.single[field])) \notin DOMAIN scene.id_aliases

\* C37: a create op naming a raw id never seen before is given a newly minted
\* id that is no key of its namespace's map yet and that no other raw id seen
\* so far resolves to, so it adds a new record instead of merging into an
\* existing one, also when earlier ops supplied ids already in <prefix>:...
\* form.
C37_NewNameNewRecord ==
    [][/\ CreatedUnderNewName("createEntity", ENTITY_NS, "entity_id") =>
             /\ KeyFor(scene', ENTITY_NS, result'.single.entity_id) \notin DOMAIN scene.entities
             /\ DOMAIN scene'.entities =
                   DOMAIN scene.entities \cup {KeyFor(scene', ENTITY_NS, result'.single.entity_id)}
             /\ Cardinality(DOMAIN scene'.entities) = Cardinality(DOMAIN scene.entities) + 1
       /\ CreatedUnderNewName("createMaterial", MATERIAL_NS, "material_id") =>
             /\ KeyFor(scene', MATERIAL_NS, result'.single.material_id) \notin DOMAIN scene.materials
             /\ Cardinality(DOMAIN scene'.materials) = Cardinality(DOMAIN scene.materials) + 1]_vars

\* the batch the step submitted, looked up by op id and kind of op
PermSubmitted ==
    [i \in 1..Len(result'.submitted) |->
        CHOOSE op \in PermOps : op.op_id = result'.submitted[i] /\ op.op = result'.kinds[i]]

\* the ops in another order of submission
Permuted(ops, f) == [i \in 1..Len(ops) |-> ops[f[i]]]

Orders(n) == {f \in [1..n -> 1..n] : \A i, j \in 1..n : f[i] = f[j] => i = j}

\* all (at_ms, op_id) pairs of the batch are distinct, at_ms as submitted
DistinctPairs(ops) ==
    \A i, j \in 1..Len(ops) :
       (ops[i].at_ms = ops[j].at_ms /\ ops[i].op_id = ops[j].op_id) => i = j

\* the same, with a negative at_ms counted as 0
DistinctClampedPairs(ops) ==
    \A i, j \in 1..Len(ops) :
       ((IF ops[i].at_ms < 0 THEN 0 ELSE ops[i].at_ms) = (IF ops[j].at_ms < 0 THEN 0 ELSE ops[j].at_ms)
          /\ ops[i].op_id = ops[j].op_id) => i = j

\* every other order of submission of the batch, applied to the scene the
\* step started from, leaves the scene and the error of the step
SameOutcomeInAnyOrder(ops) ==
    \A f \in Orders(Len(ops)) :
       \E r \in {apply_ops(scene, Permuted(ops, f), PermPolicy, FALSE)} :
          r.scene = scene' /\ r.err = result'.err

\* C38 as stated: for a batch in which every op carries an op_id and all
\* (at_ms, op_id) pairs are distinct, the scene apply leaves, or the error it
\* raises, is the same for every permutation of the submitted list.
C38_AnyOrderSameOutcome ==
    [][(result'.call = "apply" /\ calls' = calls + 1 /\ DistinctPairs(PermSubmitted))
          => SameOutcomeInAnyOrder(PermSubmitted)]_vars

\* C38 amended: the same for a batch in which all (at_ms, op_id) pairs are
\* distinct after normalization, a negative at_ms counting as 0.
C38_AnyOrderSameOutcomeClamped ==
    [][(result'.call = "apply" /\ calls' = calls + 1 /\ DistinctClampedPairs(PermSubmitted))
          => SameOutcomeInAnyOrder(PermSubmitted)]_vars

\* a batch submitted latest op first (update at 4 ms, create at 2 ms, destroy
\* at 1 ms) was applied in time order: the entity is there, updated
C38_Witness ==
    /\ result.call = "apply"
    /\ result.submitted = << "p1", "p2", "p3" >>
    /\ result.kinds = << "updateEntity", "createEntity", "destroyEntity" >>
    /\ result.applied = << "p3", "p2", "p1" >>
    /\ result.err = ""
    /\ \E e \in DOMAIN scene.entities : scene.entities[e].kind = "bowl" /\ Get(scene.entities[e], "x", 0) = 1

\* the step hands the item to the turn executor: the coroutine of
\* _process_queue_item for it is created
Handed(queue_id) ==
    /\ queue_id \in DOMAIN manager'.tasks
    /\ manager'.tasks[queue_id].pc = "running"
    /\ queue_id \notin DOMAIN manager.tasks

\* the moves of a queue item's status
ItemMoves ==
    { << "queued", "processing" >>, << "processing", "done" >>, << "processing", "error" >> }

\* C39: while the process is up, every step, of the worker loop or of a
\* run_once / drain call, in whatever order they come, leaves the status of
\* each queue item or moves it queued -> processing, processing -> done or
\* processing -> error; an item is handed to the turn executor exactly in the
\* step that moves it from queued to processing, so at most once, never
\* while it is being executed and never after it is done or in error; and
\* only the return or the raise of its own execution ends it.
C39_HandedAtMostOnce ==
    [][(Up /\ manager'.worker # "down") =>
          \A q \in 1..Len(db.queue) :
             /\ db'.queue[q].status # db.queue[q].status
                   => << db.queue[q].status, db'.queue[q].status >> \in ItemMoves
             /\ Handed(q) <=> (db.queue[q].status = "queued" /\ db'.queue[q].status = "processing")
             /\ (db.queue[q].status = "processing" /\ db'.queue[q].status # "processing")
                   => (q \in DOMAIN manager.tasks /\ manager.tasks[q].pc = "running")
             /\ (q \in DOMAIN manager.tasks /\ manager.tasks[q].pc = "running")
                   => db.queue[q].status = "processing"]_vars

\* the worker and a run_once call each claimed an item of one run: both are
\* with the turn executor, each under its own queue id
C39_Witness ==
    /\ Up
    /\ Len(db.queue) = 2
    /\ db.queue[1].run_id = db.queue[2].run_id
    /\ DOMAIN manager.tasks = {1, 2}
    /\ ~manager.tasks[1].manual /\ manager.tasks[2].manual
    /\ manager.tasks[1].pc = "running" /\ manager.tasks[2].pc = "running"
    /\ db.queue[1].status = "processing" /\ db.queue[2].status = "processing"

\* the step claims no item and ends no execution: it is a control call that
\* sets a run status (pause, resume, stop), or a step that leaves the tables
ControlOrIdle == db'.queue = db.queue /\ manager'.tasks = manager.tasks

\* C40: while the process is up, a run in status paused or stopped keeps that
\* status in every step but an explicit pause / resume / stop: the worker
\* claims no item of it, and neither a run_once / drain call nor the return
\* or the raise of an execution in flight moves it to idle, running or error.
C40_HaltedUntilControl ==
    [][(Up /\ manager'.worker # "down") =>
          \A r \in DOMAIN db.runs :
             (Halted(r) /\ ~ControlOrIdle) =>
                /\ db'.runs[r].status = db.runs[r].status
                /\ \A q \in 1..Len(db.queue) :
                      (Handed(q) /\ ~manager'.tasks[q].manual) => db.queue[q].run_id # r]_vars

====
